---------------------------- MODULE Spec2Model ----------------------------
(***************************************************************************)
(* Model of the session-scoped authentication gateway: the OAuth 2.1 +     *)
(* PKCE endpoints (src/src/auth/oauth.py), the token service               *)
(* (src/src/auth/token.py) and the Redis-backed session store              *)
(* (src/src/session/manager.py, src/src/session/session.py).               *)
(*                                                                         *)
(* Time is counted in units of 1/UnitsPerSec second, so that the           *)
(* truncation int(timestamp) of issue_token and the millisecond precision  *)
(* of a Redis time-to-live are both visible.  Strings that the code hashes *)
(* or encodes are sequences of small numbers (bytes, base64 digits).       *)
(***************************************************************************)
EXTENDS Integers, Sequences, FiniteSets, TLC

(***************************************************************************)
(* Bounds of the model.                                                    *)
(***************************************************************************)
UnitsPerSec == 3
MaxCoarseTicks == 2
MaxSessions == 2
MaxCodes == 2
MaxTokens == 2
MaxMsgs == 2
MaxConns == 1

(***************************************************************************)
(* Program constants.                                                      *)
(***************************************************************************)
SESSION_VALIDITY_SECS == 3600
SESSION_KEY_PREFIX == "session:"
AUTH_CODE_KEY_PREFIX == "auth_code:"
TOKEN_KEY_PREFIX == "token:"
\* ISSUER, AUDIENCE and TOKEN_PARAMETER are imported from config by
\* auth/token.py; their values are deployment settings.
ISSUER == "iss:this-server"
AUDIENCE == "aud:this-server"

\* The session validity window in clock units (a Redis EXPIRE of
\* SESSION_VALIDITY_SECS seconds, datetime.timedelta(hours=1)).
TtlUnits == SESSION_VALIDITY_SECS * UnitsPerSec
\* The clock is observed at the sub-second units of its first second and at
\* the multiples of half the validity window.
CoarseStep == (SESSION_VALIDITY_SECS \div 2) * UnitsPerSec

SessionIds == {"s" \o ToString(i) : i \in 1..MaxSessions}
Codes == {"c" \o ToString(i) : i \in 1..MaxCodes}
Jtis == {"j" \o ToString(i) : i \in 1..MaxTokens}
Msgs == {"m" \o ToString(i) : i \in 1..MaxMsgs}

(***************************************************************************)
(* Python values.  None is a value of its own; a str that is hashed is a   *)
(* sequence of bytes.                                                      *)
(***************************************************************************)
None == <<-1>>
EmptyStr == <<>>
\* Python truthiness of an Optional[str]: None and "" are falsy.
Falsy(s) == s = None \/ s = EmptyStr

VARIABLES
    now,          \* the wall clock, in units
    sessions,     \* Redis keys "session:<id>"   : id  -> [val, expire_at]
    auth_codes,   \* Redis keys "auth_code:<c>"  : code -> [val, expire_at]
    token_store,  \* Redis keys "token:<jti>"    : jti -> [val, expire_at]
    usedSids,     \* session ids ever drawn (uuid4) or passed to generateById
    usedCodes,    \* authorization codes ever drawn (secrets.token_urlsafe)
    usedJtis,     \* token ids ever drawn (secrets.token_urlsafe)
    tokens,       \* bearer tokens handed out to clients (claim sets)
    last,         \* the last completed request and how it was answered
    minted,       \* history: code -> what /authorize stored and answered
    grants,       \* history: code -> the jtis of the tokens returned for it
    everValid,    \* history: the tokens validate_token has accepted
    revokeCalled, \* history: the token ids revoke was called with
    tpc,          \* token_endpoint of gateway process p: its position
    treq,         \* token_endpoint of gateway process p: the form it received
    tdata,        \* token_endpoint of gateway process p: code_data it read
    ttok,         \* token_endpoint of gateway process p: the token it issued
    tresp,        \* token_endpoint of gateway process p: its response
    server_instances, \* session_manager._server_instances: the session ids
                      \* that have a transport
    gpc,          \* handle_http_request: its position
    greq,         \* handle_http_request: the request it received
    gpayload,     \* handle_http_request: token_payload
    gsess,        \* handle_http_request: what retrieve returned (its kind)
    ginjected,    \* handle_http_request: the session id put in the headers
    gsteps,       \* handle_http_request: the steps taken for the request
    gresp,        \* handle_http_request: its response
    mpc,          \* a SessionManager call made store call by store call: its
                  \* position
    mcall,        \* that call's session_id and the time it read the clock
    sse_streams,  \* CustomMiddleware.sse_streams: the session ids that have
                  \* an entry (their read_stream_writer)
    conns,        \* the SSE connections made: session id -> its stage, the
                  \* ends of its channel pair and what went through them
    posts,        \* handle_sse_message of task p: its position, request and
                  \* response
    acked,        \* history: the posted messages answered 202, in the order
                  \* of the answers
    hreq,         \* handle_http_request of task p in one event loop: its
                  \* position, session id and response
    started,      \* the session ids whose transport task has started
                  \* (run_server has called task_status.started())
    made          \* history: session id -> the number of transports
                  \* created for it

vars == <<now, sessions, auth_codes, token_store, usedSids, usedCodes,
          usedJtis, tokens, last, minted, grants, everValid, revokeCalled,
          tpc, treq, tdata, ttok, tresp, server_instances, gpc, greq,
          gpayload, gsess, ginjected, gsteps, gresp, mpc, mcall,
          sse_streams, conns, posts, acked, hreq, started, made>>

procVars == <<tpc, treq, tdata, ttok, tresp>>
histVars == <<minted, grants, everValid, revokeCalled>>
drawVars == <<usedSids, usedCodes, usedJtis>>
httpVars == <<hreq, started, made>>
gateVars == <<server_instances, gpc, greq, gpayload, gsess, ginjected,
              gsteps, gresp, httpVars>>
mgrVars == <<mpc, mcall>>
sseVars == <<sse_streams, conns, posts, acked>>


(***************************************************************************)
(* Redis, as the code uses it: JSON.SET at the root, EXPIRE, EXISTS,       *)
(* JSON.GET, JSON.DEL.  A store is a function from the keys present to     *)
(* [val, expire_at]; a key is gone from the instant its expire_at is       *)
(* reached.                                                                *)
(***************************************************************************)
NoExpiry == -1
EmptyStore == [k \in {} |-> NoExpiry]

RedisExists(store, k) == k \in DOMAIN store

\* Mutant: JSON.SET on a present key writes last_active alone.
JsonSetRoot_TouchOnly(store, k, v) ==
    IF k \in DOMAIN store
    THEN [store EXCEPT ![k].val.last_active = v.last_active]
    ELSE [x \in DOMAIN store \cup {k} |->
            IF x = k THEN [val |-> v, expire_at |-> NoExpiry] ELSE store[x]]

\* redis_client.json().set(key, "$", value): the key now holds value.  A
\* key created this way carries no time-to-live until EXPIRE is called; the
\* document of a present key is replaced in place, its time-to-live stays.
JsonSetRoot(store, k, v) ==
    [x \in DOMAIN store \cup {k} |->
        IF x = k
        THEN [val |-> v,
              expire_at |-> IF k \in DOMAIN store THEN store[k].expire_at
                            ELSE NoExpiry]
        ELSE store[x]]

\* redis_client.expire(key, secs) at time t: no effect on a missing key.
RedisExpire(store, k, secs, t) ==
    IF k \in DOMAIN store
    THEN [store EXCEPT ![k].expire_at = t + secs * UnitsPerSec]
    ELSE store

\* redis_client.json().delete(key): removes the key if it is present.
JsonDelete(store, k) == [x \in DOMAIN store \ {k} |-> store[x]]

\* What is left of a store at time t: Redis never serves an expired key.
Evict(store, t) ==
    [x \in {k \in DOMAIN store :
              store[k].expire_at = NoExpiry \/ store[k].expire_at > t}
       |-> store[x]]

(***************************************************************************)
(* Session (src/src/session/session.py) and SessionManager                 *)
(* (src/src/session/manager.py).                                           *)
(***************************************************************************)
EmptyData == <<>>

\* Session(session_id): the three timestamps default to datetime.now(),
\* expiry to now + SESSION_VALIDITY; to_dict() keeps the five fields.
NewSession(id, t) ==
    [id |-> id, connected_at |-> t, last_active |-> t,
     expiry |-> t + TtlUnits, data |-> EmptyData]

\* Mutant: the touch writes a new record.
TouchLastActive_Rewrite(store, id, t) ==
    [store EXCEPT ![id].val = [id |-> id, connected_at |-> t,
                               last_active |-> t, expiry |-> t + TtlUnits,
                               data |-> <<>>]]

\* redis_client.json().set(key, "$.last_active", now) on a present key.
TouchLastActive(store, id, t) ==
    [store EXCEPT ![id].val.last_active = t]

\* Mutant: no record is created for a new id.
GenerateByIdStore_NoCreate(store, id, t) == store

\* SessionManager.generateById: create the record if the key is absent,
\* then write last_active in every case.
GenerateByIdStore(store, id, t) ==
    LET created ==
          IF ~RedisExists(store, id)
          THEN RedisExpire(JsonSetRoot(store, id, NewSession(id, t)),
                           id, SESSION_VALIDITY_SECS, t)
          ELSE store
    IN  TouchLastActive(created, id, t)

\* Session.isExpired at time t: now > expiry.
IsExpired(session, t) == t > session.expiry

\* Mutant: every session id is taken to be live.
Validate_Always(store, id) == TRUE

\* Mutant: a record whose logical expiry is not after its last activity
\* does not validate.
Validate_ReadsExpiry(store, id) ==
    /\ RedisExists(store, id)
    /\ store[id].val.expiry > store[id].val.last_active

\* SessionManager.validate: EXISTS on the session key.
Validate(store, id) == RedisExists(store, id)


\* SessionManager.extendSessionExpiry: on a present key EXPIRE it for the
\* full window and write the logical expiry (through _update_key, which
\* writes only if the key exists); the result is [ok, store].
ExtendSessionExpiry(store, id, t) ==
    IF RedisExists(store, id)
    THEN [ok |-> TRUE,
          store |-> LET e == RedisExpire(store, id, SESSION_VALIDITY_SECS, t)
                    IN  IF RedisExists(e, id)
                        THEN [e EXCEPT ![id].val.expiry = t + TtlUnits]
                        ELSE e]
    ELSE [ok |-> FALSE, store |-> store]

\* Mutant: cleanup empties the session store.
CleanupSession_Flush(store, id) == EmptyStore

\* SessionManager.cleanupSession: JSON.DEL if the key exists.
CleanupSession(store, id) ==
    IF RedisExists(store, id) THEN JsonDelete(store, id) ELSE store

\* isinstance(retrieved_data, dict): a stored document that is not a JSON
\* object (null, a list, a string) is written [not_a_dict |-> its kind].
IsDict(v) == "not_a_dict" \notin DOMAIN v

\* dict.get(key, default)
DictGet(v, key, default) == IF key \in DOMAIN v THEN v[key] ELSE default

\* Session.from_dict, update_activity and to_dict at time t, for a dict that
\* has the key "id": absent timestamps default to now, absent expiry to
\* now + SESSION_VALIDITY, absent data to {}.
TouchedDict(v, t) ==
    [id |-> v.id,
     connected_at |-> DictGet(v, "connected_at", t),
     last_active |-> t,
     expiry |-> DictGet(v, "expiry", t + TtlUnits),
     data |-> DictGet(v, "data", EmptyData)]

\* Mutant: retrieve stamps the record as a new one.
RetrieveStore_Restamp(store, id, t) ==
    JsonSetRoot(store, id, NewSession(id, t))

\* SessionManager.retrieve, the write-back of a record that converts.
RetrieveStore(store, id, t) ==
    JsonSetRoot(store, id, TouchedDict(store[id].val, t))

\* SessionManager.retrieve: [kind, store], and the session when kind is
\* "Session".  kind is what the caller is handed: "None", "Session" (a
\* Session object) or "ErrorDict" (the dict {"error": str(e)}).
Retrieve(store, id, t) ==
    IF id = "" THEN [kind |-> "None", store |-> store]
    ELSE IF ~RedisExists(store, id) THEN [kind |-> "None", store |-> store]
    ELSE IF ~IsDict(store[id].val) THEN [kind |-> "None", store |-> store]
    ELSE IF "id" \notin DOMAIN store[id].val
      THEN [kind |-> "ErrorDict", store |-> store]
    ELSE [kind |-> "Session",
          session |-> TouchedDict(store[id].val, t),
          store |-> RetrieveStore(store, id, t)]

\* Python truthiness of what retrieve returns: None is falsy, a Session
\* object and a non-empty dict are truthy.
Truthy(kind) == kind # "None"

(***************************************************************************)
(* PKCE (MCPOAuthEndpoints._validate_pkce).  SHA-256 is a hash of the      *)
(* verifier's bytes to a digest; the model's digest has two bytes, which   *)
(* like the 32 of SHA-256 leave one '=' of base64 padding.                 *)
(***************************************************************************)
RECURSIVE HashFold(_)
HashFold(bytes) ==
    IF bytes = <<>> THEN 5381
    ELSE (HashFold(SubSeq(bytes, 1, Len(bytes) - 1)) * 33
            + bytes[Len(bytes)]) % 65536

\* hashlib.sha256(b).digest()
Sha256(bytes) == <<HashFold(bytes) \div 256, HashFold(bytes) % 256>>

\* The base64 digit '=' (the alphabet's digits are 0..63).
B64Pad == 64

\* base64.urlsafe_b64encode: three bytes to four digits, '=' padded.
RECURSIVE UrlsafeB64Encode(_)
UrlsafeB64Encode(d) ==
    IF Len(d) = 0 THEN <<>>
    ELSE IF Len(d) = 1
      THEN <<d[1] \div 4, (d[1] % 4) * 16, B64Pad, B64Pad>>
    ELSE IF Len(d) = 2
      THEN <<d[1] \div 4, (d[1] % 4) * 16 + d[2] \div 16,
             (d[2] % 16) * 4, B64Pad>>
    ELSE <<d[1] \div 4, (d[1] % 4) * 16 + d[2] \div 16,
           (d[2] % 16) * 4 + d[3] \div 64, d[3] % 64>>
         \o UrlsafeB64Encode(SubSeq(d, 4, Len(d)))

\* str.rstrip('=')
RECURSIVE RStripPad(_)
RStripPad(s) ==
    IF s # <<>> /\ s[Len(s)] = B64Pad
    THEN RStripPad(SubSeq(s, 1, Len(s) - 1))
    ELSE s

\* base64url(sha256(verifier)) with the padding stripped.
S256Challenge(verifier) == RStripPad(UrlsafeB64Encode(Sha256(verifier)))

\* Mutant: a code stored without challenge passes PKCE.
ValidatePkce_ChallengeOptional(code_verifier, code_challenge) ==
    IF Falsy(code_challenge) THEN TRUE
    ELSE IF Falsy(code_verifier) THEN FALSE
    ELSE S256Challenge(code_verifier) = code_challenge

ValidatePkce(code_verifier, code_challenge) ==
    IF Falsy(code_verifier) \/ Falsy(code_challenge) THEN FALSE
    ELSE S256Challenge(code_verifier) = code_challenge

(***************************************************************************)
(* Redirect URIs: what urlparse reads of them.                             *)
(***************************************************************************)
NoUri == [present |-> FALSE, scheme |-> "", host |-> ""]
Uri(scheme, host) == [present |-> TRUE, scheme |-> scheme, host |-> host]

\* Mutant: every redirect URI is taken.
IsValidRedirectUri_Any(u) == TRUE

\* MCPOAuthEndpoints._is_valid_redirect_uri
IsValidRedirectUri(u) ==
    IF u.host \in {"localhost", "127.0.0.1"} THEN TRUE
    ELSE IF u.scheme = "https" THEN TRUE
    ELSE FALSE


(***************************************************************************)
(* Token service (src/src/auth/token.py).  A bearer token is its claim set *)
(* and sig, which says whether its signature verifies under                *)
(* TOKEN_PARAMETER; exp and iat are whole seconds.                         *)
(***************************************************************************)
\* Mutant: one metadata record per session, a new token's record replaces
\* the records of the session's other tokens.
StoreToken_OnePerSession(tstore, token_id, session_id, t) ==
    LET others == {j \in DOMAIN tstore : tstore[j].val.session_id # session_id}
        kept == [j \in others |-> tstore[j]]
    IN  RedisExpire(
            JsonSetRoot(kept, token_id,
                        [session_id |-> session_id, issued_at |-> t,
                         revoked |-> FALSE]),
            token_id, SESSION_VALIDITY_SECS, t)

\* MCPTokenService._store_token: the metadata record (through json.dumps,
\* read back through json.loads) and its EXPIRE.
StoreToken(tstore, token_id, session_id, t) ==
    RedisExpire(
        JsonSetRoot(tstore, token_id,
                    [session_id |-> session_id, issued_at |-> t,
                     revoked |-> FALSE]),
        token_id, SESSION_VALIDITY_SECS, t)

\* MCPTokenService.issue_token with the token id drawn: [token, store].
IssueToken(tstore, session_id, scopes, token_id, t) ==
    [token |-> [session_id |-> session_id,
                aud |-> AUDIENCE,
                iss |-> ISSUER,
                exp |-> (t \div UnitsPerSec) + SESSION_VALIDITY_SECS,
                iat |-> t \div UnitsPerSec,
                scope |-> scopes,
                jti |-> token_id,
                sig |-> "ok"],
     store |-> StoreToken(tstore, token_id, session_id, t)]

\* Mutant: exp is not verified.
JwtDecode_NoExp(tok, t) ==
    IF tok.sig # "ok" THEN "InvalidTokenError"
    ELSE IF tok.aud # AUDIENCE THEN "InvalidAudienceError"
    ELSE IF tok.iss # ISSUER THEN "InvalidIssuerError"
    ELSE "decoded"

\* jwt.decode(token, TOKEN_PARAMETER, algorithms, audience, issuer): the
\* signature first, then exp, aud and iss (exp <= now is expired).
JwtDecode(tok, t) ==
    IF tok.sig # "ok" THEN "InvalidTokenError"
    ELSE IF tok.exp * UnitsPerSec <= t THEN "ExpiredSignatureError"
    ELSE IF tok.aud # AUDIENCE THEN "InvalidAudienceError"
    ELSE IF tok.iss # ISSUER THEN "InvalidIssuerError"
    ELSE "decoded"

\* Mutant: missing metadata counts as not revoked.
IsTokenRevoked_MissingIsLive(tstore, token_id) ==
    IF ~RedisExists(tstore, token_id) THEN FALSE
    ELSE tstore[token_id].val.revoked

\* MCPTokenService._is_token_revoked: missing metadata counts as revoked.
IsTokenRevoked(tstore, token_id) ==
    IF ~RedisExists(tstore, token_id) THEN TRUE
    ELSE tstore[token_id].val.revoked

\* The claim set jwt.decode returns.
Payload(tok) ==
    [session_id |-> tok.session_id, aud |-> tok.aud, iss |-> tok.iss,
     exp |-> tok.exp, iat |-> tok.iat, scope |-> tok.scope, jti |-> tok.jti]

\* What validate_token hands its caller: the claim set, or None.
Returned(v) == IF v.valid THEN v.payload ELSE None

\* Mutant: the audience is not compared.
ValidateToken_AnyAudience(tok, tstore, sstore, t) ==
    LET d == JwtDecode([tok EXCEPT !.aud = AUDIENCE], t) IN
    IF d # "decoded" THEN [valid |-> FALSE, log |-> d]
    ELSE IF IsTokenRevoked(tstore, tok.jti)
      THEN [valid |-> FALSE, log |-> "revoked"]
    ELSE IF ~Validate(sstore, tok.session_id)
      THEN [valid |-> FALSE, log |-> "session_not_found"]
    ELSE [valid |-> TRUE, log |-> "validated", payload |-> Payload(tok)]

\* MCPTokenService.validate_token: [valid, payload, log]; the caller gets
\* the payload or None (valid = FALSE), log is what goes to the logger.
ValidateToken(tok, tstore, sstore, t) ==
    LET d == JwtDecode(tok, t) IN
    IF d # "decoded" THEN [valid |-> FALSE, log |-> d]
    ELSE IF IsTokenRevoked(tstore, tok.jti)
      THEN [valid |-> FALSE, log |-> "revoked"]
    ELSE IF ~Validate(sstore, tok.session_id)
      THEN [valid |-> FALSE, log |-> "session_not_found"]
    ELSE [valid |-> TRUE, log |-> "validated", payload |-> Payload(tok)]

(***************************************************************************)
(* OAuth endpoints (src/src/auth/oauth.py).                                *)
(***************************************************************************)
\* A scope string is its words and the blanks between them.
DefaultScope == <<"read:portfolio", " ", "read:trades">>
\* Mutant: the scope is dropped.
SplitWords_Drop(str) == <<>>

\* str.split(): the words, in order.
SplitWords(str) == SelectSeq(str, LAMBDA w : w # " ")

\* The query parameter state: NoState is an absent parameter.
NoState == "<absent>"
\* f"{state}": None is written "None".
FormatState(state) == IF state = NoState THEN "None" ELSE state

\* MCPOAuthEndpoints._store_authorization_code.  The record goes in through
\* json.dumps and comes out through json.loads, which give back a dict of
\* str and None values as it was: the store holds the record.
StoreAuthorizationCode(codes, auth_code, code_data, t) ==
    RedisExpire(JsonSetRoot(codes, auth_code, code_data),
                auth_code, SESSION_VALIDITY_SECS, t)

\* MCPOAuthEndpoints._retrieve_authorization_code: [found, data].
RetrieveAuthorizationCode(codes, auth_code) ==
    IF RedisExists(codes, auth_code)
    THEN [found |-> TRUE, data |-> codes[auth_code].val]
    ELSE [found |-> FALSE]

\* Mutant: the code is left in the store after the exchange.
DeleteAuthorizationCode_Keep(codes, auth_code) == codes

\* MCPOAuthEndpoints._delete_authorization_code
DeleteAuthorizationCode(codes, auth_code) == JsonDelete(codes, auth_code)

ErrorResponse(err, descr) ==
    [status |-> 400, body |-> [error |-> err, error_description |-> descr]]

\* authorization_endpoint with the session id and the code drawn:
\* [resp, sessions, auth_codes].
AuthorizationEndpoint(q, sstore, codes, session_id, auth_code, t) ==
    IF ~q.redirect_uri.present \/ ~IsValidRedirectUri(q.redirect_uri)
    THEN [resp |-> ErrorResponse("invalid_request", "Invalid redirect_uri"),
          sessions |-> sstore, auth_codes |-> codes]
    ELSE [resp |-> [status |-> 307,   \* RedirectResponse's default status
                    location |-> [uri |-> q.redirect_uri,
                                  code |-> auth_code,
                                  state |-> FormatState(q.state)]],
          sessions |-> GenerateByIdStore(sstore, session_id, t),
          auth_codes |->
              StoreAuthorizationCode(codes, auth_code,
                  [session_id |-> session_id,
                   code_challenge |-> q.code_challenge,
                   code_challenge_method |-> q.code_challenge_method,
                   scope |-> q.scope,
                   redirect_uri |-> q.redirect_uri], t)]

\* token_endpoint, the checks made on the form alone and on the code data
\* read: [pass, resp], resp being the error response when pass is FALSE.
GrantTypeCheck(form) ==
    IF form.grant_type # "authorization_code"
    THEN [pass |-> FALSE,
          resp |-> [status |-> 400,
                    body |-> [error |-> "unsupported_grant_type"]]]
    ELSE [pass |-> TRUE]

\* Mutant: the redirect URI is compared before the PKCE pair.
CodeDataCheck_UriFirst(form, code_data) ==
    IF form.redirect_uri # code_data.redirect_uri
    THEN [pass |-> FALSE,
          resp |-> ErrorResponse("invalid_grant", "redirect_uri mismatch")]
    ELSE IF ~ValidatePkce(form.code_verifier, code_data.code_challenge)
    THEN [pass |-> FALSE,
          resp |-> ErrorResponse("invalid_grant", "PKCE validation failed")]
    ELSE [pass |-> TRUE]

CodeDataCheck(form, code_data) ==
    IF ~ValidatePkce(form.code_verifier, code_data.code_challenge)
    THEN [pass |-> FALSE,
          resp |-> ErrorResponse("invalid_grant", "PKCE validation failed")]
    ELSE IF form.redirect_uri # code_data.redirect_uri
    THEN [pass |-> FALSE,
          resp |-> ErrorResponse("invalid_grant", "redirect_uri mismatch")]
    ELSE [pass |-> TRUE]

TokenResponse(mcp_token, code_data) ==
    [status |-> 200,
     body |-> [access_token |-> mcp_token, token_type |-> "Bearer",
               expires_in |-> SESSION_VALIDITY_SECS,
               scope |-> code_data.scope]]

\* Mutant: a code that fails the PKCE or the redirect URI check is deleted.
TokenEndpoint_BurnOnFailure(form, codes, tstore, token_id, t) ==
    LET same == [auth_codes |-> codes, token_store |-> tstore]
        g == GrantTypeCheck(form)
    IN
    IF ~g.pass
    THEN [resp |-> g.resp] @@ same
    ELSE LET r == RetrieveAuthorizationCode(codes, form.code) IN
      IF ~r.found
      THEN [resp |-> ErrorResponse("invalid_grant",
                                   "Invalid or expired code")] @@ same
      ELSE LET chk == CodeDataCheck(form, r.data) IN
        IF ~chk.pass
        THEN [resp |-> chk.resp,
              auth_codes |-> DeleteAuthorizationCode(codes, form.code),
              token_store |-> tstore]
        ELSE LET i == IssueToken(tstore, r.data.session_id,
                                 SplitWords(r.data.scope), token_id, t)
             IN  [resp |-> TokenResponse(i.token, r.data),
                  auth_codes |-> DeleteAuthorizationCode(codes, form.code),
                  token_store |-> i.store]

\* token_endpoint run in one piece with the token id drawn:
\* [resp, auth_codes, token_store].
TokenEndpoint(form, codes, tstore, token_id, t) ==
    LET same == [auth_codes |-> codes, token_store |-> tstore]
        g == GrantTypeCheck(form)
    IN
    IF ~g.pass
    THEN [resp |-> g.resp] @@ same
    ELSE LET r == RetrieveAuthorizationCode(codes, form.code) IN
      IF ~r.found
      THEN [resp |-> ErrorResponse("invalid_grant",
                                   "Invalid or expired code")] @@ same
      ELSE LET chk == CodeDataCheck(form, r.data) IN
        IF ~chk.pass
        THEN [resp |-> chk.resp] @@ same
        ELSE LET i == IssueToken(tstore, r.data.session_id,
                                 SplitWords(r.data.scope), token_id, t)
             IN  [resp |-> TokenResponse(i.token, r.data),
                  auth_codes |-> DeleteAuthorizationCode(codes, form.code),
                  token_store |-> i.store]


(***************************************************************************)
(* The bearer-protected endpoint (CustomMiddleware.handle_http_request).   *)
(* A request is [auth, token]: auth says whether the Authorization header  *)
(* is absent ("none"), does not start with "Bearer " ("other") or carries  *)
(* a bearer token ("bearer").                                              *)
(***************************************************************************)
\* BEARER_REALM, RESOURCE and AUTH_SERVER_URI are imported from config by
\* middleware/middleware.py; their values are deployment settings.
BEARER_REALM == "realm:mcp"
RESOURCE == "resource:this-server"
AUTH_SERVER_URI == "as_uri:this-server"

NoHeaders == [h \in {} |-> ""]

\* Mutant: the 401 responses carry no challenge.
ChallengeHeaders_None == NoHeaders

\* headers={"WWW-Authenticate": 'Bearer realm=..., resource=..., as_uri=...'}
ChallengeHeaders ==
    [h \in {"WWW-Authenticate"} |->
        [scheme |-> "Bearer", realm |-> BEARER_REALM,
         resource |-> RESOURCE, as_uri |-> AUTH_SERVER_URI]]

\* The check of the Authorization header: [pass, resp].
HeaderCheck(req) ==
    IF req.auth # "bearer"
    THEN [pass |-> FALSE,
          resp |-> [status |-> 401,
                    body |-> [error |-> "unauthorized",
                              message |-> "Valid Bearer token required"],
                    headers |-> ChallengeHeaders]]
    ELSE [pass |-> TRUE]

\* Mutant: the 401 names the check that failed.
TokenCheck_Leaky(v) ==
    IF ~v.valid
    THEN [pass |-> FALSE,
          resp |-> [status |-> 401,
                    body |-> [error |-> "unauthorized",
                              error_message |-> v.log],
                    headers |-> ChallengeHeaders]]
    ELSE [pass |-> TRUE, payload |-> v.payload]

\* The check of what validate_token returned (v, see ValidateToken):
\* [pass, resp] or [pass, payload].
TokenCheck(v) ==
    IF ~v.valid
    THEN [pass |-> FALSE,
          resp |-> [status |-> 401,
                    body |-> [error |-> "unauthorized",
                              error_message |-> "Invalid or expired token"],
                    headers |-> ChallengeHeaders]]
    ELSE [pass |-> TRUE, payload |-> v.payload]

\* Mutant: the session is taken as confirmed whatever retrieve returned.
SessionConfirmed_Always(kind) == TRUE

\* "if not session_exists" on what retrieve returned.
SessionConfirmed(kind) == Truthy(kind)

SessionNotFoundResponse ==
    [status |-> 401,
     body |-> [error |-> "session_not_found",
               error_message |-> "Session not found"],
     headers |-> NoHeaders]

\* The response of the protocol dispatcher, passed on as it is.
DispatcherResponse ==
    [status |-> 200, body |-> [result |-> "dispatcher"],
     headers |-> NoHeaders]

\* The steps of a request that reaches the dispatcher, in the order in which
\* the handler takes them; instances is _server_instances before the request.
DispatchSteps(session_id, instances) ==
    <<"token_validated", "session_confirmed", "session_id_injected",
      IF session_id \in instances THEN "transport_reused"
      ELSE "transport_created",
      "dispatched">>

\* handle_http_request run in one piece:
\* [resp, sessions, server_instances, steps, injected].
HandleHttpRequest(req, tstore, sstore, instances, t) ==
    LET same == [sessions |-> sstore, server_instances |-> instances,
                 injected |-> ""]
        h == HeaderCheck(req)
    IN
    IF ~h.pass THEN [resp |-> h.resp, steps |-> <<>>] @@ same
    ELSE LET c == TokenCheck(ValidateToken(req.token, tstore, sstore, t)) IN
      IF ~c.pass THEN [resp |-> c.resp, steps |-> <<>>] @@ same
      ELSE LET sid == c.payload.session_id
               r1 == Retrieve(sstore, sid, t)
           IN
        IF ~SessionConfirmed(r1.kind)
        THEN [resp |-> SessionNotFoundResponse,
              steps |-> <<"token_validated">>,
              sessions |-> r1.store, server_instances |-> instances,
              injected |-> ""]
        ELSE [resp |-> DispatcherResponse,
              steps |-> DispatchSteps(sid, instances),
              sessions |-> Retrieve(r1.store, sid, t).store,
              server_instances |-> instances \cup {sid},
              injected |-> sid]

(***************************************************************************)
(* Inputs.                                                                 *)
(***************************************************************************)
V1 == <<118, 49>>
V2 == <<118, 50>>
Verifiers == {V1, V2, EmptyStr, None}

HttpsClient == Uri("https", "client.example")
Loopback == Uri("http", "localhost")
PlainHttp == Uri("http", "client.example")
LoopbackV6 == Uri("http", "::1")

AuthQuery(uri, state, challenge, scope) ==
    [redirect_uri |-> uri, state |-> state, code_challenge |-> challenge,
     code_challenge_method |-> "S256", scope |-> scope]

\* GET /authorize requests: a matching S256 pair over https, a second pair
\* over loopback with its own scope and no state, no challenge, the
\* challenge of the empty verifier, and three redirect URIs the endpoint
\* refuses: plain http to a remote host, plain http to the IPv6 loopback
\* address, and none.
AuthorizeRequests ==
    { AuthQuery(HttpsClient, "xyz", S256Challenge(V1), DefaultScope),
      AuthQuery(Loopback, NoState, S256Challenge(V2), <<"read:trades">>),
      AuthQuery(HttpsClient, "xyz", None, DefaultScope),
      AuthQuery(HttpsClient, "xyz", S256Challenge(EmptyStr), DefaultScope),
      AuthQuery(PlainHttp, "xyz", S256Challenge(V1), DefaultScope),
      AuthQuery(LoopbackV6, "xyz", S256Challenge(V1), DefaultScope),
      AuthQuery(NoUri, "xyz", S256Challenge(V1), DefaultScope) }

\* POST /token forms: for every code, a code exchange with each verifier
\* and each redirect URI an /authorize accepts, one without a redirect URI,
\* and one of another grant type.
TokenForms ==
    [grant_type : {"authorization_code"}, code : Codes,
     code_verifier : Verifiers, redirect_uri : {HttpsClient, Loopback}]
    \cup [grant_type : {"authorization_code"}, code : Codes,
          code_verifier : {V1}, redirect_uri : {NoUri}]
    \cup [grant_type : {"refresh_token"}, code : Codes,
          code_verifier : {V1}, redirect_uri : {HttpsClient}]

\* The form that exchanges code c as the client that was sent it would.
MatchingForm(c, verifier, uri) ==
    [grant_type |-> "authorization_code", code |-> c,
     code_verifier |-> verifier, redirect_uri |-> uri]

\* The forms the clients of the OAuth flow post: for every code the exchange
\* of each pair, a verifier over the other pair's redirect URI, no verifier,
\* an empty one, and a refresh.
ExchangeForms ==
    { MatchingForm(c, V1, HttpsClient) : c \in Codes }
    \cup { MatchingForm(c, V2, Loopback) : c \in Codes }
    \cup { MatchingForm(c, V2, HttpsClient) : c \in Codes }
    \cup { MatchingForm(c, None, HttpsClient) : c \in Codes }
    \cup { MatchingForm(c, EmptyStr, HttpsClient) : c \in Codes }
    \cup [grant_type : {"refresh_token"}, code : Codes,
          code_verifier : {V1}, redirect_uri : {HttpsClient}]

(***************************************************************************)
(* The gateway processes that serve POST /token step by step.              *)
(***************************************************************************)
Procs == {"p1", "p2"}
NoForm == [grant_type |-> "", code |-> "", code_verifier |-> None,
           redirect_uri |-> NoUri]
NoResp == [status |-> 0]
NoData == [session_id |-> ""]
NoToken == [jti |-> ""]
NoOp == [op |-> "none"]
NoCall == [id |-> "", at |-> 0]
NoHttp == [pc |-> "idle", sid |-> "", status |-> 0, body |-> <<>>]
NoPost == [pc |-> "idle", sid |-> "", msg |-> "", valid |-> TRUE,
           status |-> 0]
NoRequest == [auth |-> "", token |-> NoToken]
NoPayload == [session_id |-> ""]

Init ==
    /\ now = 0
    /\ sessions = EmptyStore
    /\ auth_codes = EmptyStore
    /\ token_store = EmptyStore
    /\ usedSids = {}
    /\ usedCodes = {}
    /\ usedJtis = {}
    /\ tokens = {}
    /\ last = NoOp
    /\ minted = EmptyStore
    /\ grants = [c \in Codes |-> {}]
    /\ everValid = {}
    /\ revokeCalled = {}
    /\ tpc = [p \in Procs |-> "idle"]
    /\ treq = [p \in Procs |-> NoForm]
    /\ tdata = [p \in Procs |-> NoData]
    /\ ttok = [p \in Procs |-> NoToken]
    /\ tresp = [p \in Procs |-> NoResp]
    /\ server_instances = {}
    /\ gpc = "idle"
    /\ greq = NoRequest
    /\ gpayload = NoPayload
    /\ gsess = ""
    /\ ginjected = ""
    /\ gsteps = <<>>
    /\ gresp = NoResp
    /\ mpc = "idle"
    /\ mcall = NoCall
    /\ sse_streams = {}
    /\ conns = EmptyStore
    /\ posts = [p \in Procs |-> NoPost]
    /\ acked = <<>>
    /\ hreq = [p \in Procs |-> NoHttp]
    /\ started = {}
    /\ made = [id \in SessionIds |-> 0]


(***************************************************************************)
(* Requests served in one piece (one gateway process: between its awaits a *)
(* handler runs alone).                                                    *)
(***************************************************************************)
\* uuid4 and secrets.token_urlsafe never repeat a value: a draw is an
\* element not drawn before.
Fresh(pool, used) == CHOOSE x \in pool \ used : TRUE

\* What a response says, in one word: "ok", or the error it names.
Outcome(resp) ==
    IF resp.status \notin {400} THEN "ok"
    ELSE IF "error_description" \in DOMAIN resp.body
    THEN resp.body.error_description
    ELSE resp.body.error

\* The next session id, authorization code and token id to be drawn ("" once
\* the model's pool is used up, where the requests that draw are disabled).
NextSid == IF usedSids # SessionIds THEN Fresh(SessionIds, usedSids) ELSE ""
NextCode == IF usedCodes # Codes THEN Fresh(Codes, usedCodes) ELSE ""
NextJti == IF usedJtis # Jtis THEN Fresh(Jtis, usedJtis) ELSE ""

\* GET /authorize
Authorize(q) ==
    LET accepted == q.redirect_uri.present
                    /\ IsValidRedirectUri(q.redirect_uri)
        sid == NextSid
        code == NextCode
        r == AuthorizationEndpoint(q, sessions, auth_codes, sid, code, now)
    IN  /\ accepted => usedSids # SessionIds /\ usedCodes # Codes
        /\ sessions' = r.sessions
        /\ auth_codes' = r.auth_codes
        /\ usedSids' = IF accepted THEN usedSids \cup {sid} ELSE usedSids
        /\ usedCodes' = IF accepted THEN usedCodes \cup {code} ELSE usedCodes
        /\ minted' = IF accepted
                     THEN [c \in DOMAIN minted \cup {code} |->
                             IF c = code
                             THEN [query |-> q, session_id |-> sid,
                                   at |-> now,
                                   session_stored |->
                                       RedisExists(r.sessions, sid)]
                             ELSE minted[c]]
                     ELSE minted
        /\ last' = [op |-> "authorize", code |-> IF accepted THEN code ELSE "",
                    status |-> r.resp.status, outcome |-> Outcome(r.resp)]
        /\ UNCHANGED <<now, token_store, usedJtis, tokens, grants,
                       everValid, revokeCalled>>
        /\ UNCHANGED procVars
        /\ UNCHANGED gateVars
        /\ UNCHANGED mgrVars
        /\ UNCHANGED sseVars

\* POST /token
TokenRequest(form) ==
    LET canDraw == usedJtis # Jtis
        token_id == NextJti
        r == TokenEndpoint(form, auth_codes, token_store, token_id, now)
        ok == r.resp.status = 200
    IN  /\ ok => canDraw
        /\ auth_codes' = r.auth_codes
        /\ token_store' = r.token_store
        /\ usedJtis' = IF ok THEN usedJtis \cup {token_id} ELSE usedJtis
        /\ tokens' = IF ok THEN tokens \cup {r.resp.body.access_token}
                     ELSE tokens
        /\ grants' = IF ok
                     THEN [grants EXCEPT ![form.code] = @ \cup {token_id}]
                     ELSE grants
        /\ last' = [op |-> "token", code |-> form.code,
                    status |-> r.resp.status, outcome |-> Outcome(r.resp)]
        /\ UNCHANGED <<now, sessions, usedSids, usedCodes, minted,
                       everValid, revokeCalled>>
        /\ UNCHANGED procVars
        /\ UNCHANGED gateVars
        /\ UNCHANGED mgrVars
        /\ UNCHANGED sseVars

\* Bearer tokens a client can present: the tokens handed out, each of them
\* with a signature that does not verify or signed for another audience or
\* issuer, and a token signed with TOKEN_PARAMETER whose metadata this store
\* never held.
UnrecordedJti == "j0"
Unrecorded(sid) ==
    [session_id |-> sid, aud |-> AUDIENCE, iss |-> ISSUER,
     exp |-> (now \div UnitsPerSec) + SESSION_VALIDITY_SECS,
     iat |-> now \div UnitsPerSec, scope |-> <<>>, jti |-> UnrecordedJti,
     sig |-> "ok"]
PresentedTokens ==
    tokens
    \cup {[t EXCEPT !.sig = "bad"] : t \in tokens}
    \cup {[t EXCEPT !.aud = "aud:other"] : t \in tokens}
    \cup {[t EXCEPT !.iss = "iss:other"] : t \in tokens}
    \cup {Unrecorded(sid) : sid \in usedSids}

\* MCPTokenService.validate_token(tok)
ValidateTokenCall(tok) ==
    LET r == ValidateToken(tok, token_store, sessions, now) IN
    /\ last' = [op |-> "validate_token", jti |-> tok.jti,
                session_id |-> tok.session_id, exp |-> tok.exp,
                valid |-> r.valid, log |-> r.log]
    /\ everValid' = IF r.valid THEN everValid \cup {tok} ELSE everValid
    /\ UNCHANGED <<now, sessions, auth_codes, token_store, tokens, minted,
                   grants, revokeCalled>>
    /\ UNCHANGED drawVars
    /\ UNCHANGED procVars
    /\ UNCHANGED gateVars
    /\ UNCHANGED mgrVars
    /\ UNCHANGED sseVars

\* MCPTokenService has no method revoke: a call of token_service.revoke(jti)
\* raises AttributeError and writes nothing.
Revoke(token_id) ==
    /\ last' = [op |-> "revoke", jti |-> token_id,
                result |-> "AttributeError"]
    /\ revokeCalled' = revokeCalled \cup {token_id}
    /\ UNCHANGED <<now, sessions, auth_codes, token_store, tokens, minted,
                   grants, everValid>>
    /\ UNCHANGED drawVars
    /\ UNCHANGED procVars
    /\ UNCHANGED gateVars
    /\ UNCHANGED mgrVars
    /\ UNCHANGED sseVars

\* The scopes a caller of issue_token passes: none (the default None and
\* an empty list both give the claim scope = []) and one scope.
IssueScopes == {<<>>, <<"read:trades">>}

\* MCPTokenService.issue_token(session_id, scopes)
IssueTokenCall(sid, scopes) ==
    LET token_id == NextJti
        r == IssueToken(token_store, sid, scopes, token_id, now)
    IN  /\ usedJtis # Jtis
        /\ token_store' = r.store
        /\ usedJtis' = usedJtis \cup {token_id}
        /\ tokens' = tokens \cup {r.token}
        /\ last' = [op |-> "issue_token", jti |-> token_id,
                    session_id |-> sid]
        /\ UNCHANGED <<now, sessions, auth_codes, usedSids, usedCodes>>
        /\ UNCHANGED histVars
        /\ UNCHANGED procVars
        /\ UNCHANGED gateVars
        /\ UNCHANGED mgrVars
        /\ UNCHANGED sseVars

\* SessionManager.generateById(session_id)
GenerateById(id) ==
    /\ sessions' = GenerateByIdStore(sessions, id, now)
    /\ usedSids' = usedSids \cup {id}
    /\ last' = [op |-> "generateById", id |-> id,
                existed |-> RedisExists(sessions, id)]
    /\ UNCHANGED <<now, auth_codes, token_store, usedCodes, usedJtis,
                   tokens>>
    /\ UNCHANGED histVars
    /\ UNCHANGED procVars
    /\ UNCHANGED gateVars
    /\ UNCHANGED mgrVars
    /\ UNCHANGED sseVars

\* SessionManager.retrieve(session_id)
RetrieveCall(id) ==
    LET r == Retrieve(sessions, id, now) IN
    /\ sessions' = r.store
    /\ last' = [op |-> "retrieve", id |-> id, kind |-> r.kind,
                before |-> IF RedisExists(sessions, id)
                           THEN sessions[id].val.last_active ELSE -1]
    /\ UNCHANGED <<now, auth_codes, token_store, tokens>>
    /\ UNCHANGED drawVars
    /\ UNCHANGED histVars
    /\ UNCHANGED procVars
    /\ UNCHANGED gateVars
    /\ UNCHANGED mgrVars
    /\ UNCHANGED sseVars

\* SessionManager.validate(session_id); before is the store the call found.
ValidateCall(id) ==
    /\ last' = [op |-> "validate", id |-> id,
                result |-> Validate(sessions, id), before |-> sessions]
    /\ UNCHANGED <<now, sessions, auth_codes, token_store, tokens>>
    /\ UNCHANGED drawVars
    /\ UNCHANGED histVars
    /\ UNCHANGED procVars
    /\ UNCHANGED gateVars
    /\ UNCHANGED mgrVars
    /\ UNCHANGED sseVars

\* SessionManager.extendSessionExpiry(session_id)
ExtendExpiry(id) ==
    LET r == ExtendSessionExpiry(sessions, id, now) IN
    /\ sessions' = r.store
    /\ last' = [op |-> "extendSessionExpiry", result |-> r.ok]
    /\ UNCHANGED <<now, auth_codes, token_store, tokens>>
    /\ UNCHANGED drawVars
    /\ UNCHANGED histVars
    /\ UNCHANGED procVars
    /\ UNCHANGED gateVars
    /\ UNCHANGED mgrVars
    /\ UNCHANGED sseVars

\* SessionManager.cleanupSession(session_id)
Cleanup(id) ==
    /\ sessions' = CleanupSession(sessions, id)
    /\ last' = [op |-> "cleanupSession"]
    /\ UNCHANGED <<now, auth_codes, token_store, tokens>>
    /\ UNCHANGED drawVars
    /\ UNCHANGED histVars
    /\ UNCHANGED procVars
    /\ UNCHANGED gateVars
    /\ UNCHANGED mgrVars
    /\ UNCHANGED sseVars

\* Mutant: only POST is answered 501.
RegistrationNotSupported_PostOnly(method) ==
    IF method = "POST"
    THEN [status |-> 501,
          body |-> [info |-> "registration_not_supported",
                    info_message |->
                      "This server does not require client registration."]]
    ELSE [status |-> 405, body |-> [info |-> "Method Not Allowed"]]

\* MCPOAuthEndpoints._registration_not_supported, the route "/register" for
\* the methods POST and GET.
RegistrationNotSupported(method) ==
    [status |-> 501,
     body |-> [info |-> "registration_not_supported",
               info_message |->
                 "This server does not require client registration."]]

\* POST or GET /register
Register(method) ==
    LET r == RegistrationNotSupported(method) IN
    /\ last' = [op |-> "register", status |-> r.status,
                outcome |-> r.body.info]
    /\ UNCHANGED <<now, sessions, auth_codes, token_store, tokens>>
    /\ UNCHANGED drawVars
    /\ UNCHANGED histVars
    /\ UNCHANGED procVars
    /\ UNCHANGED gateVars
    /\ UNCHANGED mgrVars
    /\ UNCHANGED sseVars

(***************************************************************************)
(* SessionManager calls made store call by store call: every call of       *)
(* redis_client is one step, and other processes' calls and the store's    *)
(* evictions come between the steps.                                       *)
(***************************************************************************)
\* A step changes nothing but the call in progress, the session store and,
\* when the call ends with it, the record of the last completed call.
MgrFrame ==
    /\ UNCHANGED <<now, auth_codes, token_store, tokens>>
    /\ UNCHANGED sseVars
    /\ UNCHANGED drawVars
    /\ UNCHANGED histVars
    /\ UNCHANGED procVars
    /\ UNCHANGED gateVars

\* last after a call has ended: result is what it returned, or the error it
\* raised; began is the time the call read the clock.
\* generateById: redis_client.exists(redis_key)
MgrGenExists(id) ==
    /\ mpc = "idle"
    /\ mcall' = [id |-> id, at |-> now]
    /\ mpc' = IF RedisExists(sessions, id) THEN "gen_touch" ELSE "gen_set"
    /\ UNCHANGED <<sessions, last>>
    /\ MgrFrame

\* generateById: Session(session_id) and JSON.SET at the root
MgrGenSet ==
    /\ mpc = "gen_set"
    /\ sessions' = JsonSetRoot(sessions, mcall.id, NewSession(mcall.id, now))
    /\ mpc' = "gen_expire"
    /\ UNCHANGED <<mcall, last>>
    /\ MgrFrame

\* generateById: EXPIRE
MgrGenExpire ==
    /\ mpc = "gen_expire"
    /\ sessions' = RedisExpire(sessions, mcall.id, SESSION_VALIDITY_SECS, now)
    /\ mpc' = "gen_touch"
    /\ UNCHANGED <<mcall, last>>
    /\ MgrFrame

\* generateById: JSON.SET at $.last_active, which Redis refuses on a key
\* that does not exist (redis.ResponseError, not caught).
MgrGenTouch ==
    /\ mpc = "gen_touch"
    /\ IF RedisExists(sessions, mcall.id)
       THEN /\ sessions' = TouchLastActive(sessions, mcall.id, now)
            /\ last' = [op |-> "generateById", id |-> mcall.id,
                        result |-> "returned", began |-> mcall.at]
       ELSE /\ sessions' = sessions
            /\ last' = [op |-> "generateById", id |-> mcall.id,
                        result |-> "ResponseError", began |-> mcall.at]
    /\ mpc' = "idle"
    /\ mcall' = NoCall
    /\ MgrFrame

\* extendSessionExpiry: redis_client.exists(redis_key), and updatedExpiry
MgrExtExists(id) ==
    /\ mpc = "idle"
    /\ IF RedisExists(sessions, id)
       THEN /\ mpc' = "ext_expire"
            /\ mcall' = [id |-> id, at |-> now]
            /\ last' = last
       ELSE /\ mpc' = "idle"
            /\ mcall' = NoCall
            /\ last' = [op |-> "extendSessionExpiry", id |-> id,
                        result |-> "False", began |-> now]
    /\ UNCHANGED sessions
    /\ MgrFrame

\* extendSessionExpiry: EXPIRE
MgrExtExpire ==
    /\ mpc = "ext_expire"
    /\ sessions' = RedisExpire(sessions, mcall.id, SESSION_VALIDITY_SECS, now)
    /\ mpc' = "ext_update"
    /\ UNCHANGED <<mcall, last>>
    /\ MgrFrame

\* extendSessionExpiry, in _update_key: redis_client.exists(redis_key)
MgrExtUpdate ==
    /\ mpc = "ext_update"
    /\ IF RedisExists(sessions, mcall.id)
       THEN /\ mpc' = "ext_write"
            /\ mcall' = mcall
            /\ last' = last
       ELSE /\ mpc' = "idle"
            /\ mcall' = NoCall
            /\ last' = [op |-> "extendSessionExpiry", id |-> mcall.id,
                        result |-> "True", began |-> mcall.at]
    /\ UNCHANGED sessions
    /\ MgrFrame

\* extendSessionExpiry, in _update_key: JSON.SET at $.expiry
MgrExtWrite ==
    /\ mpc = "ext_write"
    /\ IF RedisExists(sessions, mcall.id)
       THEN /\ sessions' = [sessions EXCEPT
                              ![mcall.id].val.expiry = mcall.at + TtlUnits]
            /\ last' = [op |-> "extendSessionExpiry", id |-> mcall.id,
                        result |-> "True", began |-> mcall.at]
       ELSE /\ sessions' = sessions
            /\ last' = [op |-> "extendSessionExpiry", id |-> mcall.id,
                        result |-> "ResponseError", began |-> mcall.at]
    /\ mpc' = "idle"
    /\ mcall' = NoCall
    /\ MgrFrame

\* retrieve: redis_client.exists and JSON.GET of a record the program wrote,
\* then from_dict and update_activity on what was read
MgrRetRead(id) ==
    /\ mpc = "idle"
    /\ IF RedisExists(sessions, id)
       THEN /\ mpc' = "ret_write"
            /\ mcall' = [id |-> id, at |-> now,
                         doc |-> TouchedDict(sessions[id].val, now)]
            /\ last' = last
       ELSE /\ mpc' = "idle"
            /\ mcall' = NoCall
            /\ last' = [op |-> "retrieve", id |-> id,
                        result |-> "None", began |-> now]
    /\ UNCHANGED sessions
    /\ MgrFrame

\* retrieve: JSON.SET at the root with to_dict of the Session
MgrRetWrite ==
    /\ mpc = "ret_write"
    /\ sessions' = JsonSetRoot(sessions, mcall.id, mcall.doc)
    /\ last' = [op |-> "retrieve", id |-> mcall.id,
                result |-> "Session", began |-> mcall.at]
    /\ mpc' = "idle"
    /\ mcall' = NoCall
    /\ MgrFrame

(***************************************************************************)
(* The SSE transport (connect_sse, handle_sse, handle_sse_message).  A     *)
(* handler runs alone between two awaits; the steps are cut at the awaits. *)
(***************************************************************************)
\* A step of the SSE transport changes neither the stores of codes and
\* tokens nor the other handlers.
SseFrame ==
    /\ UNCHANGED <<now, auth_codes, token_store, tokens, last, usedCodes,
                   usedJtis>>
    /\ UNCHANGED histVars
    /\ UNCHANGED procVars
    /\ UNCHANGED gateVars
    /\ UNCHANGED mgrVars

\* request.query_params.get("session_id") of a request without the
\* parameter (None).
Absent == "<absent>"

\* The messages posted or written so far; a new message is one not among
\* them.
UsedMsgs ==
    {posts[p].msg : p \in Procs}
    \cup UNION {{c.written[i] : i \in 1..Len(c.written)}
                \cup {c.inbound[i].msg : i \in 1..Len(c.inbound)} :
                c \in {conns[id] : id \in DOMAIN conns}}
    \cup {acked[i].msg : i \in 1..Len(acked)}
NextMsg == IF Msgs \subseteq UsedMsgs THEN "" ELSE Fresh(Msgs, UsedMsgs)

\* connect_sse up to its yield, and handle_sse around it: the channel pair
\* is created, the session id drawn, the registry entry written, then
\* generateById; store_up = FALSE is a call of the store that raises
\* (redis ConnectionError), which handle_sse answers with 500.
SseConnect(store_up) ==
    LET id == NextSid IN
    /\ usedSids # SessionIds
    /\ usedSids' = usedSids \cup {id}
    /\ sse_streams' = sse_streams \cup {id}
    /\ sessions' = IF store_up THEN GenerateByIdStore(sessions, id, now)
                   ELSE sessions
    /\ conns' = [x \in DOMAIN conns \cup {id} |->
                   IF x = id
                   THEN [stage |-> IF store_up THEN "yielded" ELSE "failed",
                         writer_open |-> TRUE, reader_open |-> TRUE,
                         inbound |-> <<>>, outbound |-> <<>>,
                         written |-> <<>>, events |-> <<>>]
                   ELSE conns[x]]
    /\ UNCHANGED <<posts, acked>>
    /\ SseFrame

\* response_wrapper starts and EventSourceResponse runs sse_writer, which
\* sends the endpoint event first.
SseStart(id) ==
    /\ id \in DOMAIN conns /\ conns[id].stage = "yielded"
    /\ conns' = [conns EXCEPT ![id].stage = "open",
                              ![id].events = <<"endpoint">>]
    /\ UNCHANGED <<sessions, usedSids, sse_streams, posts, acked>>
    /\ SseFrame

\* The dispatcher (mcp_server.run) sends a message on write_stream; the
\* senders wait in the order of their calls.
DispatcherWrite(id) ==
    LET m == NextMsg IN
    /\ id \in DOMAIN conns /\ conns[id].stage \in {"yielded", "open"}
    /\ conns[id].reader_open
    /\ m # ""
    /\ conns' = [conns EXCEPT ![id].outbound = Append(@, m),
                              ![id].written = Append(@, m)]
    /\ UNCHANGED <<sessions, usedSids, sse_streams, posts, acked>>
    /\ SseFrame

\* sse_writer: async for session_message in write_stream_reader, and the
\* message event sent to the client.
Forwarded(c) ==
    [c EXCEPT !.outbound = Tail(@),
              !.events = Append(@, Head(c.outbound))]

SseForward(id) ==
    /\ id \in DOMAIN conns /\ conns[id].stage = "open"
    /\ conns[id].outbound # <<>>
    /\ conns' = [conns EXCEPT ![id] = Forwarded(@)]
    /\ UNCHANGED <<sessions, usedSids, sse_streams, posts, acked>>
    /\ SseFrame

\* Mutant: the finally of response_wrapper closes the two channel ends and
\* leaves the registry entry.
SseClose_KeepEntry(id) ==
    /\ id \in DOMAIN conns
    /\ conns[id].stage \in {"yielded", "open", "draining"}
    /\ conns' = [conns EXCEPT ![id].stage = "closed",
                              ![id].writer_open = FALSE,
                              ![id].reader_open = FALSE]
    /\ UNCHANGED <<sessions, usedSids, sse_streams, posts, acked>>
    /\ SseFrame

\* sse_writer ends (the client has gone and EventSourceResponse cancels it):
\* leaving "async with sse_stream_writer, write_stream_reader" closes
\* write_stream_reader, before EventSourceResponse returns to
\* response_wrapper.
SseWriterExit(id) ==
    /\ id \in DOMAIN conns /\ conns[id].stage = "open"
    /\ conns' = [conns EXCEPT ![id].stage = "draining",
                              ![id].reader_open = FALSE]
    /\ UNCHANGED <<sessions, usedSids, sse_streams, posts, acked>>
    /\ SseFrame

\* The connection ends after connect_sse has yielded: the client closes
\* (EventSourceResponse returns), the handler (mcp_server.run) raises, or
\* the task group is cancelled (CancelledError in response_wrapper, which
\* "except Exception" lets through).  Each way leads to the finally of
\* response_wrapper and to nothing else that changes the state: it closes
\* read_stream_writer and write_stream_reader and pops the registry entry,
\* with no await that yields in between.
SseClose(id) ==
    /\ id \in DOMAIN conns
    /\ conns[id].stage \in {"yielded", "open", "draining"}
    /\ conns' = [conns EXCEPT ![id].stage = "closed",
                              ![id].writer_open = FALSE,
                              ![id].reader_open = FALSE]
    /\ sse_streams' = sse_streams \ {id}
    /\ UNCHANGED <<sessions, usedSids, posts, acked>>
    /\ SseFrame

\* Mutant: a request without session_id is looked up like any other.
SseLookup_NoCheck(sid, registry) ==
    IF sid \notin registry THEN 404 ELSE 0

\* handle_sse_message up to the registry lookup: the status it answers
\* with, 0 if it goes on.
SseLookup(sid, registry) ==
    IF sid = Absent THEN 400
    ELSE IF sid \notin registry THEN 404
    ELSE 0

\* handle_sse_message: session_id, self.sse_streams.get, await request.body()
\* (the body is read only when the lookup has found the entry)
PostLookup(p, sid, valid) ==
    LET status == SseLookup(sid, sse_streams)
        m == NextMsg
    IN
    /\ posts[p].pc = "idle"
    /\ m # ""
    /\ posts' = [posts EXCEPT ![p] =
                   [pc |-> IF status = 0 THEN "ack" ELSE "done",
                    sid |-> sid, msg |-> m,
                    valid |-> IF status = 0 THEN valid ELSE TRUE,
                    status |-> status]]
    /\ UNCHANGED <<sessions, usedSids, sse_streams, conns, acked>>
    /\ SseFrame

\* handle_sse_message: model_validate_json and await response(...): 202, or
\* 400 for a body that is not a JSON-RPC message.
PostAck(p) ==
    /\ posts[p].pc = "ack"
    /\ posts' = [posts EXCEPT ![p].pc = "send",
                              ![p].status = IF posts[p].valid THEN 202
                                            ELSE 400]
    /\ acked' = IF posts[p].valid
                THEN Append(acked, [sid |-> posts[p].sid,
                                    msg |-> posts[p].msg])
                ELSE acked
    /\ UNCHANGED <<sessions, usedSids, sse_streams, conns>>
    /\ SseFrame

\* handle_sse_message: await writer.send(session_message), or
\* writer.send(err) after a 400; on a closed writer it raises
\* ClosedResourceError and nothing is delivered.
PostSend(p) ==
    LET sid == posts[p].sid IN
    /\ posts[p].pc = "send"
    /\ posts' = [posts EXCEPT ![p].pc = "done"]
    /\ conns' = IF conns[sid].writer_open
                THEN [conns EXCEPT ![sid].inbound =
                        Append(@, [msg |-> posts[p].msg,
                                   valid |-> posts[p].valid])]
                ELSE conns
    /\ UNCHANGED <<sessions, usedSids, sse_streams, acked>>
    /\ SseFrame

(***************************************************************************)
(* The bearer-protected endpoint and the streamable HTTP endpoint as tasks *)
(* of one event loop: a handler runs alone up to its next await, which is  *)
(* "await _task_group.start(run_server)" and then "await                   *)
(* session_manager.handle_request(...)".                                   *)
(***************************************************************************)
\* A step of these handlers changes nothing but the session store, the
\* registry of transports and the handlers themselves.
HttpFrame ==
    /\ UNCHANGED <<now, auth_codes, token_store, tokens, last, gpc, greq,
                   gpayload, gsess, ginjected, gsteps, gresp>>
    /\ UNCHANGED drawVars
    /\ UNCHANGED histVars
    /\ UNCHANGED procVars
    /\ UNCHANGED mgrVars
    /\ UNCHANGED sseVars

\* str(e) of the exceptions a step can raise: the store is not reachable,
\* the transport task does not start, the dispatcher fails.
StoreDown == "Error 111 connecting to redis:6379. Connection refused."
StartFailed == "unhandled errors in a TaskGroup (1 sub-exception)"
DispatcherFailed == "No read stream writer available."

\* handle_http_request, except Exception as e: the 500 response; the
\* message is the f-string "Unexpected error: {e}".
InternalServerError(e) ==
    [status |-> 500,
     body |-> [error |-> "internal_server_error",
               error_message |-> <<"Unexpected error: ", e>>]]

\* Mutant: a transport is made for every request.
NeedsTransport_Always(session_id, instances) == TRUE

\* handle_http_request: "if session_id not in
\* self.session_manager._server_instances"
NeedsTransport(session_id, instances) == session_id \notin instances

\* handle_http_request from the Authorization header (a bearer token) to
\* its first await: validate_token, retrieve, and either the transport made
\* and registered and the start of its task awaited, or, with the entry
\* there, the second retrieve and handle_request awaited.  store_up = FALSE
\* is a store that fails at the first retrieve.
HttpEnter(p, tok, store_up) ==
    LET c == TokenCheck(ValidateToken(tok, token_store, sessions, now))
        sid == tok.session_id
        r1 == Retrieve(sessions, sid, now)
        failed(resp) ==
            /\ hreq' = [hreq EXCEPT ![p] =
                          [pc |-> "idle", sid |-> sid,
                           status |-> resp.status, body |-> resp.body]]
            /\ UNCHANGED <<sessions, server_instances, started, made>>
    IN
    /\ hreq[p].pc = "idle"
    /\ IF ~c.pass THEN failed(c.resp)
       ELSE IF ~store_up THEN failed(InternalServerError(StoreDown))
       ELSE IF ~SessionConfirmed(r1.kind) THEN failed(SessionNotFoundResponse)
       ELSE IF NeedsTransport(sid, server_instances)
       THEN /\ server_instances' = server_instances \cup {sid}
            /\ made' = [made EXCEPT ![sid] = @ + 1]
            /\ sessions' = r1.store
            /\ hreq' = [hreq EXCEPT ![p] =
                          [pc |-> "starting", sid |-> sid, status |-> 0,
                           body |-> <<>>]]
            /\ UNCHANGED started
       ELSE /\ sessions' = Retrieve(r1.store, sid, now).store
            /\ hreq' = [hreq EXCEPT ![p] =
                          [pc |-> "dispatching", sid |-> sid, status |-> 0,
                           body |-> <<>>]]
            /\ UNCHANGED <<server_instances, started, made>>
    /\ HttpFrame

\* "await _task_group.start(run_server)" returns, run_server having
\* connected the transport and called task_status.started(), or raises;
\* then the second retrieve, and handle_request is awaited.
HttpStarted(p, ok) ==
    LET sid == hreq[p].sid
        resp == InternalServerError(StartFailed)
    IN
    /\ hreq[p].pc = "starting"
    /\ IF ok
       THEN /\ started' = started \cup {sid}
            /\ sessions' = Retrieve(sessions, sid, now).store
            /\ hreq' = [hreq EXCEPT ![p].pc = "dispatching"]
       ELSE /\ hreq' = [hreq EXCEPT ![p].pc = "idle",
                                    ![p].status = resp.status,
                                    ![p].body = resp.body]
            /\ UNCHANGED <<started, sessions>>
    /\ UNCHANGED <<server_instances, made>>
    /\ HttpFrame

\* "await self.session_manager.handle_request(...)" returns with the
\* dispatcher's response, or raises.
HttpDispatch(p, ok) ==
    LET resp == IF ok THEN DispatcherResponse
                ELSE InternalServerError(DispatcherFailed)
    IN
    /\ hreq[p].pc = "dispatching"
    /\ hreq' = [hreq EXCEPT ![p].pc = "idle", ![p].status = resp.status,
                            ![p].body = resp.body]
    /\ UNCHANGED <<sessions, server_instances, started, made>>
    /\ HttpFrame

\* Mutant: a request with the session id header is given a transport too.
HandleStreamableHttp_AlwaysProvision(header, sstore, instances, fresh, t) ==
    LET id == IF header = Absent THEN fresh ELSE header IN
    [session_id |-> id, minted |-> TRUE,
     server_instances |-> instances \cup {id},
     sessions |-> GenerateByIdStore(sstore, id, t)]

\* handle_streamable_http up to handle_request, with the session id drawn
\* (fresh) for a request without the header mcp-session-id:
\* [session_id, minted, server_instances, sessions].
HandleStreamableHttp(header, sstore, instances, fresh, t) ==
    IF header = Absent
    THEN [session_id |-> fresh, minted |-> TRUE,
          server_instances |-> instances \cup {fresh},
          sessions |-> GenerateByIdStore(sstore, fresh, t)]
    ELSE [session_id |-> header, minted |-> FALSE,
          server_instances |-> instances,
          sessions |-> Retrieve(sstore, header, t).store]

\* A request to /mcp, served in one piece up to the dispatcher.
McpRequest(header) ==
    LET r == HandleStreamableHttp(header, sessions, server_instances,
                                  NextSid, now)
    IN
    /\ header = Absent => usedSids # SessionIds
    /\ sessions' = r.sessions
    /\ server_instances' = r.server_instances
    /\ started' = IF r.minted THEN started \cup {r.session_id} ELSE started
    /\ made' = IF r.minted THEN [made EXCEPT ![r.session_id] = @ + 1]
               ELSE made
    /\ usedSids' = IF r.minted THEN usedSids \cup {r.session_id}
                   ELSE usedSids
    /\ last' = [op |-> "mcp", header |-> header, id |-> r.session_id]
    /\ UNCHANGED <<now, auth_codes, token_store, tokens, usedCodes, usedJtis,
                   gpc, greq, gpayload, gsess, ginjected, gsteps, gresp,
                   hreq>>
    /\ UNCHANGED histVars
    /\ UNCHANGED procVars
    /\ UNCHANGED mgrVars
    /\ UNCHANGED sseVars

\* The requests a client can send to the bearer-protected endpoint.
GateRequests ==
    {[auth |-> "none", token |-> NoToken],
     [auth |-> "other", token |-> NoToken]}
    \cup {[auth |-> "bearer", token |-> tok] : tok \in PresentedTokens}

\* handle_http_request up to validate_token.
GateReceive(req) ==
    LET h == HeaderCheck(req)
        v == ValidateToken(req.token, token_store, sessions, now)
        c == TokenCheck(v)
    IN  /\ gpc = "idle"
        /\ greq' = req
        /\ gsess' = ""
        /\ ginjected' = ""
        /\ IF ~h.pass
           THEN /\ gresp' = h.resp
                /\ gsteps' = <<>>
                /\ gpayload' = NoPayload
                /\ gpc' = "idle"
                /\ UNCHANGED everValid
           ELSE IF ~c.pass
           THEN /\ gresp' = c.resp
                /\ gsteps' = <<>>
                /\ gpayload' = NoPayload
                /\ gpc' = "idle"
                /\ UNCHANGED everValid
           ELSE /\ gresp' = NoResp
                /\ gsteps' = <<"token_validated">>
                /\ gpayload' = c.payload
                /\ gpc' = "confirm"
                /\ everValid' = everValid \cup {req.token}
        /\ last' = [op |-> "http"]
        /\ UNCHANGED <<now, sessions, auth_codes, token_store, tokens, minted,
                       grants, revokeCalled, server_instances>>
        /\ UNCHANGED httpVars
        /\ UNCHANGED drawVars
        /\ UNCHANGED procVars
        /\ UNCHANGED mgrVars
        /\ UNCHANGED sseVars

\* handle_http_request from the first retrieve to the transport.
GateConfirm ==
    LET sid == gpayload.session_id
        r == Retrieve(sessions, sid, now)
    IN  /\ gpc = "confirm"
        /\ gsess' = r.kind
        /\ sessions' = r.store
        /\ IF ~SessionConfirmed(r.kind)
           THEN /\ gresp' = SessionNotFoundResponse
                /\ gpc' = "idle"
                /\ UNCHANGED <<ginjected, server_instances, gsteps,
                               started, made>>
           ELSE /\ ginjected' = sid
                /\ server_instances' = server_instances \cup {sid}
                /\ started' = started \cup {sid}
                /\ made' = IF sid \in server_instances THEN made
                           ELSE [made EXCEPT ![sid] = @ + 1]
                /\ gsteps' = SubSeq(DispatchSteps(sid, server_instances),
                                    1, 4)
                /\ gpc' = "dispatch"
                /\ UNCHANGED gresp
        /\ UNCHANGED <<now, auth_codes, token_store, tokens, last, greq,
                       gpayload, hreq>>
        /\ UNCHANGED drawVars
        /\ UNCHANGED histVars
        /\ UNCHANGED procVars
        /\ UNCHANGED mgrVars
        /\ UNCHANGED sseVars

\* handle_http_request from the second retrieve to its response.
GateDispatch ==
    /\ gpc = "dispatch"
    /\ sessions' = Retrieve(sessions, ginjected, now).store
    /\ gsteps' = Append(gsteps, "dispatched")
    /\ gresp' = DispatcherResponse
    /\ gpc' = "idle"
    /\ UNCHANGED <<now, auth_codes, token_store, tokens, last, greq,
                   gpayload, gsess, ginjected, server_instances>>
    /\ UNCHANGED httpVars
    /\ UNCHANGED drawVars
    /\ UNCHANGED histVars
    /\ UNCHANGED procVars
    /\ UNCHANGED mgrVars
    /\ UNCHANGED sseVars

\* Time passes; Redis drops the keys whose time-to-live has run out.
Advance(t) ==
    /\ now' = t
    /\ sessions' = Evict(sessions, t)
    /\ auth_codes' = Evict(auth_codes, t)
    /\ token_store' = Evict(token_store, t)
    /\ last' = [op |-> "tick"]
    /\ UNCHANGED <<tokens>>
    /\ UNCHANGED drawVars
    /\ UNCHANGED histVars
    /\ UNCHANGED procVars
    /\ UNCHANGED gateVars
    /\ UNCHANGED mgrVars
    /\ UNCHANGED sseVars

\* The clock moves by a fraction of a second, within its first second.
SubTick ==
    /\ now < UnitsPerSec - 1
    /\ Advance(now + 1)

\* The clock reaches the next half validity window.
CoarseTick ==
    /\ now \div CoarseStep < MaxCoarseTicks
    /\ Advance(((now \div CoarseStep) + 1) * CoarseStep)

(***************************************************************************)
(* Spec: the OAuth flow.  Every /authorize query, the /token forms of the  *)
(* flow's clients, and the clock moving by half validity windows.          *)
(***************************************************************************)
Next ==
    \/ \E q \in AuthorizeRequests : Authorize(q)
    \/ \E form \in ExchangeForms : TokenRequest(form)
    \/ CoarseTick

Spec == Init /\ [][Next]_vars


(***************************************************************************)
(* Claims about the OAuth flow, checked under Spec.  A response is what    *)
(* the endpoint's operator returns for a request in the state at hand; the *)
(* formulas quantify over every request of the model in every reachable    *)
(* state.                                                                  *)
(***************************************************************************)
\* The verifiers that make a PKCE pair (RFC 7636: at least 43 characters).
PairVerifiers == Verifiers \ {None, EmptyStr}

\* The /token response to form in the current state.
TokenAnswer(form) ==
    TokenEndpoint(form, auth_codes, token_store, NextJti, now)

\* C1 as stated: for a code minted by /authorize with challenge
\* base64url(sha256(V)) unpadded, the first POST /token with
\* grant_type=authorization_code, that code, verifier V and the stored
\* redirect_uri succeeds with an access token, and every later POST /token
\* with the same code, with the same or different parameters, fails with
\* 400 invalid_grant.
C1_AsStated ==
    \A c \in DOMAIN minted :
      LET m == minted[c] IN
      /\ \A v \in PairVerifiers :
           ( /\ m.query.code_challenge = S256Challenge(v)
             /\ grants[c] = {}
             /\ now < m.at + TtlUnits )
           => TokenAnswer(MatchingForm(c, v, m.query.redirect_uri))
                .resp.status = 200
      /\ grants[c] # {}
           => \A form \in TokenForms :
                form.code = c
                => LET r == TokenAnswer(form)
                   IN  /\ r.resp.status = 400
                       /\ r.resp.body.error = "invalid_grant"

\* C1, amended: for a code minted by /authorize with challenge
\* base64url(sha256(V)) unpadded, the first code exchange with that code,
\* verifier V and the redirect_uri stored at authorization time, made while
\* the code record has not run out of its time-to-live, succeeds with an
\* access token whose metadata is stored, and consumes the code; once a
\* token has been returned for the code, every POST /token with that code is
\* refused with 400 and issues nothing: with invalid_grant when its
\* grant_type is authorization_code, whatever its verifier and redirect_uri,
\* and with unsupported_grant_type otherwise.
C1_ExchangeOnce ==
    \A c \in DOMAIN minted :
      LET m == minted[c] IN
      /\ \A v \in PairVerifiers :
           ( /\ m.query.code_challenge = S256Challenge(v)
             /\ grants[c] = {}
             /\ now < m.at + TtlUnits )
           => LET r == TokenAnswer(MatchingForm(c, v, m.query.redirect_uri))
              IN  /\ r.resp.status = 200
                  /\ r.resp.body.access_token.sig = "ok"
                  /\ r.resp.body.access_token.jti \in DOMAIN r.token_store
                  /\ c \notin DOMAIN r.auth_codes
      /\ grants[c] # {}
           => \A form \in TokenForms :
                form.code = c
                => LET r == TokenAnswer(form)
                   IN  /\ r.resp.status = 400
                       /\ r.resp.body.error =
                            IF form.grant_type = "authorization_code"
                            THEN "invalid_grant"
                            ELSE "unsupported_grant_type"
                       /\ r.token_store = token_store

\* C1 witness: a token was returned for a code of a valid PKCE pair, and a
\* later exchange of the same code has been refused.
C1_Witness ==
    \E c \in DOMAIN minted :
      /\ \E v \in PairVerifiers :
           minted[c].query.code_challenge = S256Challenge(v)
      /\ Cardinality(grants[c]) = 1
      /\ last.op = "token" /\ last.code = c /\ last.status = 400
      /\ last.outcome = "Invalid or expired code"

\* C3: for every stored authorization code, a code exchange whose
\* code_verifier is missing (or empty) or whose unpadded
\* base64url(sha256(code_verifier)) differs from the stored code_challenge
\* (a code stored without challenge included) is answered 400 invalid_grant
\* "PKCE validation failed"; no token is issued and the code stays stored.
C3_PkceMismatchRefused ==
    \A form \in TokenForms :
      ( /\ form.grant_type = "authorization_code"
        /\ form.code \in DOMAIN auth_codes
        /\ \/ form.code_verifier \in {None, EmptyStr}
           \/ S256Challenge(form.code_verifier)
                # auth_codes[form.code].val.code_challenge )
      => LET r == TokenAnswer(form)
         IN  /\ r.resp.status = 400
             /\ r.resp.body.error = "invalid_grant"
             /\ r.resp.body.error_description = "PKCE validation failed"
             /\ r.token_store = token_store
             /\ r.auth_codes = auth_codes

\* C3 witness: an exchange of a code stored without challenge, and one made
\* with a verifier that is not the challenge's, have been refused.
C3_Witness ==
    /\ last.op = "token" /\ last.outcome = "PKCE validation failed"
    /\ last.code \in DOMAIN auth_codes
    /\ \E c \in DOMAIN auth_codes :
         auth_codes[c].val.code_challenge = None
    /\ auth_codes[last.code].val.code_challenge = S256Challenge(V1)

\* C10: a GET /authorize with an accepted redirect_uri creates a session
\* record that did not exist, with empty data, stores exactly one
\* authorization code record, which holds that session's id and the
\* request's code_challenge, scope and redirect_uri, and redirects to
\* redirect_uri with that code and the request's state; and every stored
\* authorization code references the session id created by its own
\* /authorize, whose record was in the store when the code was stored.
C10_AuthorizeCreatesSessionThenCode ==
    /\ \A q \in AuthorizeRequests :
         ( /\ q.redirect_uri.present
           /\ \/ q.redirect_uri.host \in {"localhost", "127.0.0.1"}
              \/ q.redirect_uri.scheme = "https"
           /\ usedSids # SessionIds /\ usedCodes # Codes )
         => LET sid == NextSid
                code == NextCode
                r == AuthorizationEndpoint(q, sessions, auth_codes, sid,
                                           code, now)
            IN  /\ sid \notin DOMAIN sessions
                /\ sid \in DOMAIN r.sessions
                /\ r.sessions[sid].val.id = sid
                /\ r.sessions[sid].val.data = EmptyData
                /\ \A x \in DOMAIN sessions : r.sessions[x] = sessions[x]
                /\ code \notin DOMAIN auth_codes
                /\ DOMAIN r.auth_codes = DOMAIN auth_codes \cup {code}
                /\ \A x \in DOMAIN auth_codes :
                     r.auth_codes[x] = auth_codes[x]
                /\ r.auth_codes[code].val =
                     [session_id |-> sid,
                      code_challenge |-> q.code_challenge,
                      code_challenge_method |-> q.code_challenge_method,
                      scope |-> q.scope,
                      redirect_uri |-> q.redirect_uri]
                /\ r.resp.status \in 300..399
                /\ r.resp.location.uri = q.redirect_uri
                /\ r.resp.location.code = code
                /\ q.state # NoState => r.resp.location.state = q.state
    /\ \A c \in DOMAIN auth_codes :
         /\ c \in DOMAIN minted
         /\ minted[c].session_stored
         /\ minted[c].session_id \in usedSids
         /\ auth_codes[c].val.session_id = minted[c].session_id

\* C10 witness: an /authorize has been answered with a redirect, and its
\* code and its session, with empty data, are in the store.
C10_Witness ==
    /\ last.op = "authorize" /\ last.status = 307
    /\ last.code \in DOMAIN auth_codes
    /\ auth_codes[last.code].val.session_id \in DOMAIN sessions
    /\ sessions[auth_codes[last.code].val.session_id].val.data = EmptyData


\* The hosts of the model that are loopback addresses.
LoopbackAddresses == {"localhost", "127.0.0.1", "::1"}

\* The /authorize response to q in the current state.
AuthorizeAnswer(q) ==
    AuthorizationEndpoint(q, sessions, auth_codes, NextSid, NextCode, now)

\* C11 as stated: GET /authorize is accepted if and only if redirect_uri is
\* present and its host is a loopback address or its scheme is https;
\* otherwise it is answered 400 invalid_request and the store is unchanged.
C11_AsStated ==
    \A q \in AuthorizeRequests :
      LET r == AuthorizeAnswer(q)
          acceptable == /\ q.redirect_uri.present
                        /\ \/ q.redirect_uri.host \in LoopbackAddresses
                           \/ q.redirect_uri.scheme = "https"
      IN  /\ acceptable <=> r.resp.status # 400
          /\ ~acceptable
               => /\ r.resp.body.error = "invalid_request"
                  /\ r.sessions = sessions
                  /\ r.auth_codes = auth_codes

\* C11, amended: GET /authorize is accepted if and only if redirect_uri is
\* present and its host is localhost or 127.0.0.1 or its scheme is https
\* (any other host, the loopback address ::1 included, needs https);
\* otherwise it is answered 400 with error invalid_request, and a rejected
\* request creates no session record and stores no authorization code.
C11_RedirectUriGate ==
    \A q \in AuthorizeRequests :
      LET r == AuthorizeAnswer(q)
          acceptable == /\ q.redirect_uri.present
                        /\ \/ q.redirect_uri.host \in {"localhost",
                                                       "127.0.0.1"}
                           \/ q.redirect_uri.scheme = "https"
      IN  /\ acceptable <=> r.resp.status # 400
          /\ acceptable => r.resp.status \in 300..399
          /\ ~acceptable
               => /\ r.resp.body.error = "invalid_request"
                  /\ r.sessions = sessions
                  /\ r.auth_codes = auth_codes

\* C11 witness: an /authorize has been refused with invalid_request while a
\* session and a code of an earlier /authorize are stored.
C11_Witness ==
    /\ last.op = "authorize" /\ last.status = 400
    /\ last.outcome = "Invalid redirect_uri"
    /\ sessions # EmptyStore
    /\ auth_codes # EmptyStore

\* C12: a token issued by a successful exchange is bound to the exchanged
\* code: its session_id claim is the session_id of the code record, which
\* is the session created by the /authorize that minted the code, its scope
\* is the words of the scope of the code record, the response's scope is
\* the stored scope, its token_type is Bearer and its expires_in is the
\* session validity window; the metadata record names the same session.
C12_TokenBoundToCode ==
    \A form \in TokenForms :
      LET r == TokenAnswer(form) IN
      r.resp.status = 200
      => LET stored == auth_codes[form.code].val
             tok == r.resp.body.access_token
         IN  /\ form.code \in DOMAIN minted
             /\ tok.session_id = stored.session_id
             /\ tok.session_id = minted[form.code].session_id
             /\ tok.scope = SelectSeq(stored.scope, LAMBDA w : w # " ")
             /\ stored.scope = minted[form.code].query.scope
             /\ r.resp.body.scope = stored.scope
             /\ r.resp.body.token_type = "Bearer"
             /\ r.resp.body.expires_in = SESSION_VALIDITY_SECS
             /\ r.token_store[tok.jti].val.session_id = stored.session_id

\* C12 witness: a code minted with a scope of its own has been exchanged,
\* and the token returned carries the session of the code and that scope.
C12_Witness ==
    /\ last.op = "token" /\ last.status = 200
    /\ last.code \in DOMAIN minted
    /\ minted[last.code].query.scope = <<"read:trades">>
    /\ \E tok \in tokens :
         /\ tok.jti \in grants[last.code]
         /\ tok.session_id = minted[last.code].session_id
         /\ tok.scope = <<"read:trades">>


(***************************************************************************)
(* SpecConc: POST /token served by two gateway processes on the shared     *)
(* store.  A step of a process holds one access to the store (and the      *)
(* local checks before it): the JSON.GET of the code, the writes of        *)
(* issue_token, the JSON.DEL of the code.                                  *)
(***************************************************************************)
PairQueries ==
    { AuthQuery(HttpsClient, "xyz", S256Challenge(V1), DefaultScope) }
ConcForms ==
    { MatchingForm(c, v, HttpsClient) : c \in Codes, v \in {V1, V2} }

\* token_endpoint up to _retrieve_authorization_code.
TokReceive(p, form) ==
    LET g == GrantTypeCheck(form)
        r == RetrieveAuthorizationCode(auth_codes, form.code)
    IN  /\ tpc[p] \in {"idle", "done"}
        /\ treq' = [treq EXCEPT ![p] = form]
        /\ ttok' = [ttok EXCEPT ![p] = NoToken]
        /\ IF ~g.pass
           THEN /\ tresp' = [tresp EXCEPT ![p] = g.resp]
                /\ tdata' = [tdata EXCEPT ![p] = NoData]
                /\ tpc' = [tpc EXCEPT ![p] = "done"]
           ELSE IF ~r.found
           THEN /\ tresp' = [tresp EXCEPT ![p] =
                               ErrorResponse("invalid_grant",
                                             "Invalid or expired code")]
                /\ tdata' = [tdata EXCEPT ![p] = NoData]
                /\ tpc' = [tpc EXCEPT ![p] = "done"]
           ELSE /\ tresp' = [tresp EXCEPT ![p] = NoResp]
                /\ tdata' = [tdata EXCEPT ![p] = r.data]
                /\ tpc' = [tpc EXCEPT ![p] = "issue"]
        /\ UNCHANGED <<now, sessions, auth_codes, token_store, tokens, last>>
        /\ UNCHANGED drawVars
        /\ UNCHANGED histVars
        /\ UNCHANGED gateVars
        /\ UNCHANGED mgrVars
        /\ UNCHANGED sseVars

\* token_endpoint from _validate_pkce to issue_token.
TokIssue(p) ==
    LET chk == CodeDataCheck(treq[p], tdata[p])
        i == IssueToken(token_store, tdata[p].session_id,
                        SplitWords(tdata[p].scope), NextJti, now)
    IN  /\ tpc[p] = "issue"
        /\ IF ~chk.pass
           THEN /\ tresp' = [tresp EXCEPT ![p] = chk.resp]
                /\ tpc' = [tpc EXCEPT ![p] = "done"]
                /\ UNCHANGED <<token_store, ttok, usedJtis, grants>>
           ELSE /\ usedJtis # Jtis
                /\ token_store' = i.store
                /\ ttok' = [ttok EXCEPT ![p] = i.token]
                /\ usedJtis' = usedJtis \cup {NextJti}
                /\ grants' = [grants EXCEPT ![treq[p].code] =
                                @ \cup {NextJti}]
                /\ tpc' = [tpc EXCEPT ![p] = "delete"]
                /\ UNCHANGED tresp
        /\ UNCHANGED <<now, sessions, auth_codes, tokens, last, usedSids,
                       usedCodes, minted, everValid, revokeCalled, treq,
                       tdata>>
        /\ UNCHANGED gateVars
        /\ UNCHANGED mgrVars
        /\ UNCHANGED sseVars

\* token_endpoint from _delete_authorization_code to its response.
TokDelete(p) ==
    /\ tpc[p] = "delete"
    /\ auth_codes' = DeleteAuthorizationCode(auth_codes, treq[p].code)
    /\ tresp' = [tresp EXCEPT ![p] = TokenResponse(ttok[p], tdata[p])]
    /\ tokens' = tokens \cup {ttok[p]}
    /\ tpc' = [tpc EXCEPT ![p] = "done"]
    /\ UNCHANGED <<now, sessions, token_store, last, treq, tdata, ttok>>
    /\ UNCHANGED drawVars
    /\ UNCHANGED histVars
    /\ UNCHANGED gateVars
    /\ UNCHANGED mgrVars
    /\ UNCHANGED sseVars

NextConc ==
    \/ \E q \in PairQueries : Authorize(q)
    \/ \E p \in Procs, form \in ConcForms : TokReceive(p, form)
    \/ \E p \in Procs : TokIssue(p)
    \/ \E p \in Procs : TokDelete(p)

SpecConc == Init /\ [][NextConc]_vars

\* C2: consumption of an authorization code is atomic with the successful
\* exchange: however the store accesses of concurrent token requests for
\* one code interleave, at most one token metadata record is created for
\* the code and at most one access token is returned for it.
C2_AtMostOneTokenPerCode ==
    \A c \in Codes :
      /\ Cardinality(grants[c]) <= 1
      /\ Cardinality({p \in Procs : /\ tpc[p] = "done"
                                    /\ treq[p].code = c
                                    /\ tresp[p].status = 200}) <= 1


(***************************************************************************)
(* SpecTok: the life of bearer tokens.  Codes are minted and exchanged,    *)
(* the tokens and their variants are presented to validate_token, revoke   *)
(* is called, sessions are deleted and extended, and the clock moves       *)
(* within the second and by half validity windows.  One client goes        *)
(* through the flow.                                                       *)
(***************************************************************************)
TokForms == { MatchingForm(c, V1, HttpsClient) : c \in Codes }

NextTok ==
    \/ \E q \in PairQueries : usedCodes = {} /\ Authorize(q)
    \/ \E form \in TokForms : TokenRequest(form)
    \/ \E tok \in PresentedTokens : ValidateTokenCall(tok)
    \/ \E tok \in tokens : Revoke(tok.jti)
    \/ \E id \in usedSids : Cleanup(id)
    \/ \E id \in usedSids : ExtendExpiry(id)
    \/ SubTick
    \/ CoarseTick

SpecTok == Init /\ [][NextTok]_vars

\* What validate_token answers for tok in the current state.
ValidateAnswer(tok) == ValidateToken(tok, token_store, sessions, now)

\* The token is presented before its exp (a whole second) has been reached.
BeforeExp(tok) == now < tok.exp * UnitsPerSec

\* The metadata store as it is, and as it is with one of its records marked
\* revoked (validate_token reads the field).
MetadataStores ==
    {token_store}
    \cup {[token_store EXCEPT ![j].val.revoked = TRUE] :
            j \in DOMAIN token_store}

\* C4: validate_token(t) returns the decoded claim set if and only if, at
\* the moment of the call, t's signature, audience and issuer verify, t is
\* not past exp, a metadata record exists for t's jti with revoked = false,
\* and a session record exists for t's session_id; otherwise it returns
\* nothing.  This holds at every call, also for the tokens that validated
\* earlier.
C4_ValidIffAllHold ==
    \A tok \in PresentedTokens \cup everValid :
      \A tstore \in MetadataStores :
        LET r == ValidateToken(tok, tstore, sessions, now)
            allHold == /\ tok.sig = "ok"
                       /\ tok.aud = AUDIENCE
                       /\ tok.iss = ISSUER
                       /\ BeforeExp(tok)
                       /\ tok.jti \in DOMAIN tstore
                       /\ tstore[tok.jti].val.revoked = FALSE
                       /\ tok.session_id \in DOMAIN sessions
        IN  /\ r.valid <=> allHold
            /\ r.valid => r.payload = Payload(tok)
            /\ ~r.valid => "payload" \notin DOMAIN r

\* C4 witness: a token that validated earlier has just been rejected, its
\* session having gone while everything else still holds.
C4_Witness ==
    /\ last.op = "validate_token" /\ ~last.valid
    /\ \E tok \in everValid :
         /\ tok.jti = last.jti
         /\ tok.session_id \notin DOMAIN sessions
         /\ tok.jti \in DOMAIN token_store
         /\ BeforeExp(tok)
         /\ ~ValidateAnswer(tok).valid

\* C5: revoke(jti) sets revoked = true on the metadata record, and after
\* revoke(jti) every validate_token call for a token with that jti fails,
\* also before the token's exp and while its session exists.
C5_RevokeIsEffective ==
    \A tok \in tokens :
      tok.jti \in revokeCalled
      => /\ tok.jti \in DOMAIN token_store
              => token_store[tok.jti].val.revoked = TRUE
         /\ ~ValidateAnswer(tok).valid

\* C6: when no session record exists for session_id s, validate_token fails
\* for every token whose session_id claim is s; for a token whose signature,
\* audience and issuer verify, that is before exp and whose metadata exists
\* unrevoked, the failure is the missing session.
C6_NoSessionNoToken ==
    \A tok \in PresentedTokens \cup everValid :
      tok.session_id \notin DOMAIN sessions
      => /\ ~ValidateAnswer(tok).valid
         /\ ( /\ tok.sig = "ok" /\ tok.aud = AUDIENCE /\ tok.iss = ISSUER
              /\ BeforeExp(tok)
              /\ tok.jti \in DOMAIN token_store
              /\ ~token_store[tok.jti].val.revoked )
            => ValidateAnswer(tok).log = "session_not_found"

\* C6 witness: a handed-out token, before exp and with its metadata stored
\* unrevoked, has been refused for its missing session.
C6_Witness ==
    /\ last.op = "validate_token" /\ last.log = "session_not_found"
    /\ last.session_id \notin DOMAIN sessions
    /\ last.jti \in DOMAIN token_store
    /\ ~token_store[last.jti].val.revoked
    /\ now < last.exp * UnitsPerSec

\* C7: a token whose metadata record is absent from the store is treated as
\* revoked: validate_token fails for it, and when its signature, audience
\* and issuer verify and it is before exp, the failure is the revocation,
\* whether or not its session exists.
C7_NoMetadataIsRevoked ==
    \A tok \in PresentedTokens \cup everValid :
      tok.jti \notin DOMAIN token_store
      => /\ ~ValidateAnswer(tok).valid
         /\ IsTokenRevoked(token_store, tok.jti)
         /\ ( tok.sig = "ok" /\ tok.aud = AUDIENCE /\ tok.iss = ISSUER
              /\ BeforeExp(tok) )
            => ValidateAnswer(tok).log = "revoked"

\* C7 witness: a token whose metadata was never written, signed for a
\* session that exists, has been refused as revoked before its exp.
C7_Witness ==
    /\ last.op = "validate_token" /\ last.log = "revoked"
    /\ last.jti \notin DOMAIN token_store
    /\ last.session_id \in DOMAIN sessions
    /\ now < last.exp * UnitsPerSec

\* C8: a token presented when its exp has passed fails validate_token,
\* whatever else holds of it: its signature, audience and issuer verifying,
\* its metadata being stored unrevoked, its session existing.
C8_ExpiredTokenFails ==
    \A tok \in PresentedTokens \cup everValid :
      ~BeforeExp(tok)
      => /\ ~ValidateAnswer(tok).valid
         /\ tok.sig = "ok" => ValidateAnswer(tok).log = "ExpiredSignatureError"

\* C8 witness: a token has been refused as expired while its metadata is
\* stored unrevoked and its session, extended, exists.
C8_Witness ==
    /\ last.op = "validate_token" /\ last.log = "ExpiredSignatureError"
    /\ now >= last.exp * UnitsPerSec
    /\ last.jti \in DOMAIN token_store
    /\ ~token_store[last.jti].val.revoked
    /\ last.session_id \in DOMAIN sessions
    /\ sessions[last.session_id].val.expiry
         > sessions[last.session_id].val.connected_at + TtlUnits

(***************************************************************************)
(* SpecSess: the session manager alone.                                    *)
(***************************************************************************)
NextSess ==
    \/ \E id \in SessionIds : GenerateById(id)
    \/ \E id \in SessionIds : ExtendExpiry(id)
    \/ \E id \in SessionIds : Cleanup(id)
    \/ \E id \in SessionIds \cup {""} : RetrieveCall(id)
    \/ \E id \in SessionIds : ValidateCall(id)
    \/ CoarseTick

SpecSess == Init /\ [][NextSess]_vars

\* C9: generateById called twice in sequence with the same id: after the
\* first call the store holds one record for the id, and the second call,
\* made while the record is stored, changes nothing in the store but that
\* record's last_active, which it sets to the time of the call: id,
\* connected_at, expiry and data, the record's time-to-live and the other
\* sessions stay as they were.
C9_GenerateByIdIdempotent ==
    \A id \in SessionIds :
      LET first == GenerateByIdStore(sessions, id, now) IN
      /\ id \in DOMAIN first
      /\ first[id].val.id = id
      /\ \A t2 \in now .. (now + UnitsPerSec) :
           id \in DOMAIN Evict(first, t2)
           => LET second == GenerateByIdStore(Evict(first, t2), id, t2) IN
              /\ DOMAIN second = DOMAIN Evict(first, t2)
              /\ second[id].val.id = first[id].val.id
              /\ second[id].val.connected_at = first[id].val.connected_at
              /\ second[id].val.expiry = first[id].val.expiry
              /\ second[id].val.data = first[id].val.data
              /\ second[id].val.last_active = t2
              /\ second[id].expire_at = first[id].expire_at
              /\ \A x \in DOMAIN second \ {id} : second[x] = first[x]

\* C9 witness: generateById has been called for an id whose record was
\* stored, and the record's last_active is later than its connected_at.
C9_Witness ==
    /\ last.op = "generateById" /\ last.existed
    /\ last.id \in DOMAIN sessions
    /\ sessions[last.id].val.last_active = now
    /\ sessions[last.id].val.connected_at < now


(***************************************************************************)
(* SpecGate: the bearer-protected endpoint.  One client goes through the   *)
(* OAuth flow and sends requests; its session is deleted or runs out       *)
(* while requests are being served.                                        *)
(***************************************************************************)
NextGate ==
    \/ \E q \in PairQueries : usedCodes = {} /\ Authorize(q)
    \/ \E form \in TokForms : TokenRequest(form)
    \/ \E req \in GateRequests : GateReceive(req)
    \/ GateConfirm
    \/ GateDispatch
    \/ \E id \in usedSids : Cleanup(id)
    \/ \E method \in {"POST", "GET"} : Register(method)
    \/ CoarseTick

SpecGate == Init /\ [][NextGate]_vars

\* The response of the bearer-protected endpoint to req in the current
\* state, the metadata store being tstore.
GateAnswer(req, tstore) ==
    HandleHttpRequest(req, tstore, sessions, server_instances, now)

\* C13: a request with no Authorization header, with a header that does
\* not start with "Bearer ", or with a token that validate_token rejects is
\* answered 401 with a WWW-Authenticate header naming realm, resource and
\* as_uri; no transport is created, no session record is written and the
\* dispatcher is not invoked.
C13_RejectedWithChallenge ==
    \A req \in GateRequests : \A tstore \in MetadataStores :
      ( \/ req.auth # "bearer"
        \/ ~ValidateToken(req.token, tstore, sessions, now).valid )
      => LET r == GateAnswer(req, tstore) IN
         /\ r.resp.status = 401
         /\ "WWW-Authenticate" \in DOMAIN r.resp.headers
         /\ r.resp.headers["WWW-Authenticate"].scheme = "Bearer"
         /\ r.resp.headers["WWW-Authenticate"].realm = BEARER_REALM
         /\ r.resp.headers["WWW-Authenticate"].resource = RESOURCE
         /\ r.resp.headers["WWW-Authenticate"].as_uri = AUTH_SERVER_URI
         /\ r.sessions = sessions
         /\ r.server_instances = server_instances
         /\ r.steps = <<>>
         /\ r.injected = ""

\* C13 witness: a request with an expired bearer token has been answered
\* 401 with the challenge, nothing having been done for it.
C13_Witness ==
    /\ gpc = "idle" /\ greq.auth = "bearer"
    /\ greq.token.sig = "ok" /\ ~BeforeExp(greq.token)
    /\ gresp.status = 401
    /\ "WWW-Authenticate" \in DOMAIN gresp.headers
    /\ gsteps = <<>>

\* C14: every 401 response of the bearer-protected endpoint carries the
\* WWW-Authenticate challenge header, the 401 given when the token
\* validated and the session record is gone at the session lookup included.
C14_Every401HasChallenge ==
    gresp.status = 401 => "WWW-Authenticate" \in DOMAIN gresp.headers

\* The steps of a request in their order, and the beginnings of it.
StepOrders ==
    { <<"token_validated", "session_confirmed", "session_id_injected", x,
        "dispatched">> : x \in {"transport_created", "transport_reused"} }
StepPrefixes ==
    { SubSeq(o, 1, n) : o \in StepOrders, n \in 0..5 }

\* C15: the steps of a request occur in the order token validated, session
\* confirmed, session id injected, transport provisioned or reused, request
\* dispatched, and none is skipped; the dispatcher is invoked only for a
\* request whose token validate_token accepted and whose session retrieve
\* returned in that request, and the session id injected is the one of the
\* validated claims.
C15_GateOrder ==
    /\ gsteps \in StepPrefixes
    /\ gresp.status = 200 => gsteps \in StepOrders
    /\ Len(gsteps) >= 1
         => /\ greq.auth = "bearer"
            /\ greq.token \in everValid
            /\ gpayload = Payload(greq.token)
    /\ Len(gsteps) >= 2 => gsess = "Session"
    /\ Len(gsteps) >= 3 => ginjected = gpayload.session_id
    /\ Len(gsteps) >= 4 => ginjected \in server_instances
    /\ \A req \in GateRequests :
         LET r == GateAnswer(req, token_store) IN
         /\ r.steps \in StepPrefixes
         /\ r.resp.status = 200
              => /\ r.steps \in StepOrders
                 /\ ValidateToken(req.token, token_store, sessions, now).valid
                 /\ r.injected = req.token.session_id
                 /\ r.injected \in DOMAIN sessions
                 /\ r.injected \in r.server_instances

\* C15 witness: a request has reached the dispatcher over a transport that
\* an earlier request created.
C15_Witness ==
    /\ gpc = "idle" /\ gresp.status = 200
    /\ gsteps = <<"token_validated", "session_confirmed",
                  "session_id_injected", "transport_reused", "dispatched">>

\* C16: validate_token hands its caller the same value for every token it
\* rejects, and the bearer-protected endpoint answers two rejected tokens
\* with the same status, body and headers, whatever the checks that failed
\* (signature, exp, audience, issuer, metadata absent, revoked, session
\* absent).
C16_UniformInvalid ==
    \A a \in PresentedTokens, b \in PresentedTokens :
      \A sa \in MetadataStores, sb \in MetadataStores :
        LET va == ValidateToken(a, sa, sessions, now)
            vb == ValidateToken(b, sb, sessions, now)
        IN  (~va.valid /\ ~vb.valid)
            => /\ Returned(va) = Returned(vb)
               /\ GateAnswer([auth |-> "bearer", token |-> a], sa).resp
                    = GateAnswer([auth |-> "bearer", token |-> b], sb).resp

\* C16 witness: a rejected token has been answered 401 while another token
\* a client can present is rejected for another reason.
C16_Witness ==
    /\ gpc = "idle" /\ greq.auth = "bearer" /\ gresp.status = 401
    /\ gsteps = <<>>
    /\ ~ValidateAnswer(greq.token).valid
    /\ ValidateAnswer(greq.token).log = "session_not_found"
    /\ \E tok \in PresentedTokens :
         /\ ~ValidateAnswer(tok).valid
         /\ ValidateAnswer(tok).log = "InvalidTokenError"


\* C18: retrieve(session_id) for an id with no record returns no session
\* and leaves the store as it is, no record created; for an id whose record
\* is stored it returns the Session and writes the record back with
\* last_active set to the time of the call and with id, connected_at,
\* expiry and data as they were stored, the other records untouched; the
\* Session returned carries the values written.
C18_RetrieveWritesLastActive ==
    \A id \in SessionIds \cup {""} :
      LET r == Retrieve(sessions, id, now) IN
      IF ~RedisExists(sessions, id)
      THEN /\ r.kind = "None"
           /\ r.store = sessions
      ELSE /\ r.kind = "Session"
           /\ DOMAIN r.store = DOMAIN sessions
           /\ r.store[id].val.last_active = now
           /\ r.store[id].val.id = sessions[id].val.id
           /\ r.store[id].val.connected_at = sessions[id].val.connected_at
           /\ r.store[id].val.expiry = sessions[id].val.expiry
           /\ r.store[id].val.data = sessions[id].val.data
           /\ r.session = r.store[id].val
           /\ \A x \in DOMAIN sessions \ {id} : r.store[x] = sessions[x]

\* C18 witness: retrieve has returned the Session of a record created
\* earlier and last touched earlier, whose expiry had been extended, and
\* the record now has last_active = now.
C18_Witness ==
    /\ last.op = "retrieve" /\ last.kind = "Session"
    /\ last.id \in DOMAIN sessions
    /\ last.before < now
    /\ sessions[last.id].val.last_active = now
    /\ sessions[last.id].val.connected_at < now
    /\ sessions[last.id].val.expiry
         # sessions[last.id].val.connected_at + TtlUnits

\* C20: validate(session_id) is a pure existence check: it returns true
\* exactly when a record is stored for the id; whatever the record's logical
\* expiry is, a value in the past included (where isExpired is true), the
\* answer is the same; and a call leaves the store as it found it, every
\* field of every record, last_active included.
C20_ValidateIsExistenceCheck ==
    /\ \A id \in SessionIds :
          /\ Validate(sessions, id) = (id \in DOMAIN sessions)
          /\ id \in DOMAIN sessions =>
                \A e \in {0, now \div 2, now} :
                  LET st == [sessions EXCEPT ![id].val.expiry = e] IN
                  /\ Validate(st, id)
                  /\ e < now => IsExpired(st[id].val, now)
    /\ last.op = "validate" =>
          /\ last.before = sessions
          /\ last.result = (last.id \in DOMAIN sessions)

\* C20 witness: validate has answered true for a record that was last
\* touched earlier, and the record still has that last_active.
C20_Witness ==
    /\ last.op = "validate" /\ last.result
    /\ last.id \in DOMAIN sessions
    /\ now > 0
    /\ sessions[last.id].val.last_active < now
    /\ sessions[last.id].val.connected_at < sessions[last.id].val.last_active

(***************************************************************************)
(* The Token Service used directly: sessions are created and deleted,      *)
(* tokens are issued for them, validated and "revoked", and the clock      *)
(* moves.  The tokens are those of one session.                            *)
(***************************************************************************)
NextIssue ==
    \/ \E id \in SessionIds : usedSids = {} /\ GenerateById(id)
    \/ \E sid \in usedSids, scopes \in IssueScopes : IssueTokenCall(sid, scopes)
    \/ \E tok \in tokens : ValidateTokenCall(tok)
    \/ \E tok \in tokens : Revoke(tok.jti)
    \/ \E id \in usedSids : Cleanup(id)
    \/ CoarseTick

SpecIssue == Init /\ [][NextIssue]_vars

\* The metadata store with the record of token_id marked revoked.
MarkedRevoked(tstore, token_id) ==
    IF token_id \in DOMAIN tstore
    THEN [tstore EXCEPT ![token_id].val.revoked = TRUE]
    ELSE tstore

\* C17: several live tokens of one session are permitted and independent.
\* Issuing another token for the session of a token t1 draws a token id
\* that no token has, adds a metadata record of its own and leaves every
\* other record, t1's included, as it was, so that t1 validates as before
\* and the new token validates while the session exists; every token
\* validates before its exp while its session exists; and for two tokens
\* of one session, deleting the metadata of one, or marking it revoked,
\* does not change what validate_token answers for the other.
C17_TokensIndependent ==
    /\ \A t1 \in tokens, scopes \in IssueScopes :
          usedJtis # Jtis =>
            LET r == IssueToken(token_store, t1.session_id, scopes,
                                NextJti, now)
            IN  /\ r.token.jti \notin {t.jti : t \in tokens}
                /\ DOMAIN r.store = DOMAIN token_store \cup {r.token.jti}
                /\ \A j \in DOMAIN token_store : r.store[j] = token_store[j]
                /\ r.store[r.token.jti].val.session_id = t1.session_id
                /\ ValidateToken(t1, r.store, sessions, now)
                     = ValidateAnswer(t1)
                /\ RedisExists(sessions, t1.session_id)
                     => ValidateToken(r.token, r.store, sessions, now).valid
    /\ \A t \in tokens :
          RedisExists(sessions, t.session_id) /\ BeforeExp(t)
            => ValidateAnswer(t).valid
    /\ \A t1 \in tokens, t2 \in tokens :
          t1 # t2 /\ t1.session_id = t2.session_id =>
            /\ t1.jti # t2.jti
            /\ ValidateToken(t2, JsonDelete(token_store, t1.jti), sessions,
                             now) = ValidateAnswer(t2)
            /\ ValidateToken(t2, MarkedRevoked(token_store, t1.jti),
                             sessions, now) = ValidateAnswer(t2)
            /\ t1.jti \in revokeCalled
                 => ValidateAnswer(t2).valid
                      = (RedisExists(sessions, t2.session_id)
                         /\ BeforeExp(t2))

\* Two tokens of one session have both validated and both validate now,
\* and revoke has been called for one of them.
C17_Witness ==
    \E t1 \in tokens, t2 \in tokens :
        /\ t1 # t2
        /\ t1.session_id = t2.session_id
        /\ {t1, t2} \subseteq everValid
        /\ ValidateAnswer(t1).valid
        /\ ValidateAnswer(t2).valid
        /\ t1.jti \in revokeCalled

(***************************************************************************)
(* Records that are present but not well formed.  The program writes no    *)
(* such record; retrieve reads whatever document the key holds, so the     *)
(* claims about them are checked on the reachable stores with one record   *)
(* replaced.                                                               *)
(***************************************************************************)
\* A document that is not a JSON object, and an object without "id".
CorruptDocs ==
    {[not_a_dict |-> "list"],
     [connected_at |-> 0, last_active |-> 0, expiry |-> TtlUnits,
      data |-> EmptyData]}

\* The session store with the document of id replaced by doc.
WithDocument(store, id, doc) == [store EXCEPT ![id].val = doc]

\* C19: retrieve(session_id) on a record that is present but structurally
\* invalid fails: what it returns is not a Session and does not pass for
\* one in the caller's test of the value, the stored record is left as it
\* is, and a request on the bearer-protected path whose token names such a
\* session is not dispatched.
C19_CorruptIsRefused ==
    \A id \in DOMAIN sessions, doc \in CorruptDocs :
      LET st == WithDocument(sessions, id, doc)
          r == Retrieve(st, id, now)
      IN  /\ r.kind # "Session"
          /\ ~Truthy(r.kind)
          /\ r.store = st
          /\ \A tok \in tokens :
                tok.session_id = id =>
                  LET g == HandleHttpRequest(
                             [auth |-> "bearer", token |-> tok],
                             token_store, st, server_instances, now)
                  IN  /\ g.resp.status # 200
                      /\ g.steps \in {<<>>, <<"token_validated">>}

\* C22: cleanupSession(session_id) deletes the record of the id if there is
\* one and changes nothing if there is none; the other sessions' records
\* stay as they are (also a session created just before), and so do the
\* authorization codes and the token metadata: after a cleanup every code
\* not yet exchanged and every token, if still within its time-to-live, has
\* its record; a second cleanup leaves what the first left, and validate
\* answers false for the id.
C22_CleanupRemovesOnlyThatSession ==
    /\ \A id \in SessionIds, other \in SessionIds :
          LET st == GenerateByIdStore(sessions, other, now)
              c == CleanupSession(st, id)
          IN  /\ DOMAIN c = DOMAIN st \ {id}
              /\ \A x \in DOMAIN c : c[x] = st[x]
              /\ id \notin DOMAIN st => c = st
              /\ CleanupSession(c, id) = c
              /\ ~Validate(c, id)
    /\ last.op = "cleanupSession" =>
          /\ \A tok \in tokens :
                BeforeExp(tok) => tok.jti \in DOMAIN token_store
          /\ \A code \in DOMAIN minted :
                grants[code] = {} /\ now < minted[code].at + TtlUnits
                  => code \in DOMAIN auth_codes

\* C22 witness: a cleanup has deleted the record of a session for which a
\* token had been issued; the token's metadata is still stored.
C22_Witness ==
    /\ last.op = "cleanupSession"
    /\ \E tok \in tokens :
          /\ tok \in everValid
          /\ tok.session_id \notin DOMAIN sessions
          /\ tok.jti \in DOMAIN token_store

\* C27: the registration endpoint answers every POST and every GET of
\* /register, in any state, with 501 and the body registration_not_supported,
\* and the request changes neither the store (sessions, authorization codes,
\* token metadata) nor the registries of transports.
C27_RegisterAnswers501 ==
    [][\A method \in {"POST", "GET"} :
         /\ ENABLED Register(method)
         /\ Register(method) =>
              /\ last'.status = 501
              /\ last'.outcome = "registration_not_supported"
              /\ UNCHANGED <<sessions, auth_codes, token_store,
                             server_instances, sse_streams>>]_vars

\* C27 witness: /register has been answered 501 with a session, a token's
\* metadata and a transport in place.
C27_Witness ==
    /\ last.op = "register" /\ last.status = 501
    /\ DOMAIN sessions # {}
    /\ DOMAIN token_store # {}
    /\ server_instances # {}

\* C28 (under Spec): a POST /token that is refused (unsupported grant type,
\* unknown code, PKCE failure, redirect_uri mismatch) leaves the
\* authorization codes and the token metadata as they were; the code of a
\* request just refused, when it is in the store, is still exchanged by the
\* form that matches its challenge and redirect URI; and a code that
\* /authorize stored is missing from the store only once a token has been
\* returned for it or its time-to-live has run out.
C28_FailedRequestChangesNothing ==
    /\ \A form \in TokenForms :
         LET r == TokenAnswer(form) IN
         r.resp.status # 200
         => /\ r.auth_codes = auth_codes
            /\ r.token_store = token_store
    /\ ( /\ last.op = "token" /\ last.status = 400
         /\ last.code \in DOMAIN auth_codes )
       => LET data == auth_codes[last.code].val IN
          \A v \in PairVerifiers :
            data.code_challenge = S256Challenge(v)
            => TokenAnswer(MatchingForm(last.code, v, data.redirect_uri))
                 .resp.status = 200
    /\ \A c \in DOMAIN minted :
         c \notin DOMAIN auth_codes
         => grants[c] # {} \/ now >= minted[c].at + TtlUnits

\* C28 witness: a POST /token with a code of the store has just been refused
\* for its PKCE pair or its redirect URI, no token metadata exists, and the
\* client the code was sent to can still exchange it.
C28_Witness ==
    /\ last.op = "token" /\ last.status = 400
    /\ last.outcome \in {"PKCE validation failed", "redirect_uri mismatch"}
    /\ last.code \in DOMAIN auth_codes
    /\ DOMAIN token_store = {}
    /\ \E v \in PairVerifiers :
         TokenAnswer(MatchingForm(last.code, v,
                                  minted[last.code].query.redirect_uri))
           .resp.status = 200

\* C29 (under Spec): POST /token checks in this order: the grant type
\* (400 unsupported_grant_type, also with a valid code), the code lookup
\* (400 invalid_grant "Invalid or expired code"), the PKCE pair (400
\* invalid_grant "PKCE validation failed"), the redirect_uri against the
\* stored one (400 invalid_grant "redirect_uri mismatch"); the first check
\* that fails gives the answer, and a token is returned exactly when the
\* four of them pass.
C29_TokenChecksInOrder ==
    \A form \in TokenForms :
      LET resp == TokenAnswer(form).resp
          known == form.code \in DOMAIN auth_codes
          data == auth_codes[form.code].val
          invalid_grant(descr) ==
              [status |-> 400,
               body |-> [error |-> "invalid_grant",
                         error_description |-> descr]]
      IN
      IF form.grant_type # "authorization_code"
      THEN resp = [status |-> 400,
                   body |-> [error |-> "unsupported_grant_type"]]
      ELSE IF ~known
      THEN resp = invalid_grant("Invalid or expired code")
      ELSE IF \/ form.code_verifier \in {None, EmptyStr}
              \/ data.code_challenge = None
              \/ S256Challenge(form.code_verifier) # data.code_challenge
      THEN resp = invalid_grant("PKCE validation failed")
      ELSE IF form.redirect_uri # data.redirect_uri
      THEN resp = invalid_grant("redirect_uri mismatch")
      ELSE resp.status = 200

\* C29 witness: a code is in the store that a client can exchange; the same
\* exchange as a refresh_token grant is answered unsupported_grant_type, a
\* form that fails the PKCE pair and the redirect URI is answered for the
\* PKCE pair, and the last POST /token was refused for its redirect URI.
C29_Witness ==
    /\ last.op = "token" /\ last.outcome = "redirect_uri mismatch"
    /\ \E c \in DOMAIN auth_codes, v \in PairVerifiers, w \in PairVerifiers :
         LET uri == auth_codes[c].val.redirect_uri
             other == IF uri = HttpsClient THEN Loopback ELSE HttpsClient
         IN
         /\ TokenAnswer(MatchingForm(c, v, uri)).resp.status = 200
         /\ Outcome(TokenAnswer([MatchingForm(c, v, uri) EXCEPT
                       !.grant_type = "refresh_token"]).resp)
              = "unsupported_grant_type"
         /\ w # v
         /\ Outcome(TokenAnswer(MatchingForm(c, w, other)).resp)
              = "PKCE validation failed"

(***************************************************************************)
(* SpecMgr: the session manager, its calls made store call by store call,  *)
(* with the deletes of other processes and the clock between the steps.    *)
(***************************************************************************)
NextMgr ==
    \/ \E id \in SessionIds : MgrGenExists(id)
    \/ MgrGenSet
    \/ MgrGenExpire
    \/ MgrGenTouch
    \/ \E id \in SessionIds : MgrExtExists(id)
    \/ MgrExtExpire
    \/ MgrExtUpdate
    \/ MgrExtWrite
    \/ \E id \in SessionIds : MgrRetRead(id)
    \/ MgrRetWrite
    \/ \E id \in SessionIds : Cleanup(id)
    \/ CoarseTick

SpecMgr == Init /\ [][NextMgr]_vars

\* C21: extendSessionExpiry(session_id) returns False for an id with no
\* record and leaves the store as it is; when it has returned True, the
\* record of the id is in the store with a time-to-live of the full window
\* counted from the call or later, a logical expiry of the time of the call
\* plus the window, and id, connected_at and data as they were.
C21_ExtendedWhenTrue ==
    last.op = "extendSessionExpiry" /\ last.result = "True" =>
      /\ last.id \in DOMAIN sessions
      /\ sessions[last.id].expire_at >= last.began + TtlUnits
      /\ sessions[last.id].val.expiry = last.began + TtlUnits
      /\ sessions[last.id].val.id = last.id

\* C23: in every reachable state every record in the store (session,
\* authorization code, token metadata) carries a time-to-live, and one that
\* ends no later than the validity window after now: between the store
\* calls of a SessionManager operation too, and after retrieve has written
\* a record back.
C23_EveryRecordHasTtl ==
    \A store \in {sessions, auth_codes, token_store} :
      \A k \in DOMAIN store :
        /\ store[k].expire_at # NoExpiry
        /\ store[k].expire_at <= now + TtlUnits

(***************************************************************************)
(* SpecSse: SSE connections are made, carry messages both ways and end;    *)
(* two clients post a message each; a durable session is made by another   *)
(* path, and durable session records are deleted.                          *)
(***************************************************************************)
NextSse ==
    \/ \E store_up \in BOOLEAN :
          Cardinality(DOMAIN conns) < MaxConns /\ SseConnect(store_up)
    \/ \E id \in SessionIds : SseStart(id)
    \/ \E id \in SessionIds : DispatcherWrite(id)
    \/ \E id \in SessionIds : SseForward(id)
    \/ \E id \in SessionIds : SseWriterExit(id)
    \/ \E id \in SessionIds : SseClose(id)
    \/ \E p \in Procs, sid \in usedSids \cup {"", Absent},
          valid \in BOOLEAN : PostLookup(p, sid, valid)
    \/ \E p \in Procs : PostAck(p)
    \/ \E p \in Procs : PostSend(p)
    \/ \E id \in {NextSid} : usedSids = {} /\ GenerateById(id)
    \/ \E id \in DOMAIN sessions \cap DOMAIN conns : Cleanup(id)

SpecSse == Init /\ [][NextSse]_vars

\* C24: however an SSE connection has ended (the client closed, the
\* handler raised, during the setup after the registry entry was written
\* too, or the task group was cancelled), the registry has no entry for the
\* connection's session id and read_stream_writer and write_stream_reader
\* are closed.
C24_EndedConnectionIsCleanedUp ==
    \A id \in DOMAIN conns :
      conns[id].stage \in {"closed", "failed"} =>
        /\ id \notin sse_streams
        /\ ~conns[id].writer_open
        /\ ~conns[id].reader_open

\* C25: what handle_sse_message does with a POST depends on the registry
\* alone.  A request without session_id is answered 400; one whose session
\* id has no registry entry is answered 404 and nothing of it is delivered,
\* also when the session has its record in the store; one whose session id
\* has an entry goes on, and when its handler has finished with the entry
\* still there its message is in the session's inbound channel, whether the
\* session's record is in the store or not.  Nothing is in an inbound
\* channel but the messages of such requests.
C25_DeliveryDependsOnRegistryOnly ==
    /\ \A sid \in SessionIds \cup {"", Absent} :
         SseLookup(sid, sse_streams)
           = IF sid = Absent THEN 400
             ELSE IF sid \in sse_streams THEN 0 ELSE 404
    /\ \A p \in Procs :
         LET r == posts[p] IN
         /\ r.pc # "idle" /\ r.sid = Absent => r.status = 400 /\ r.pc = "done"
         /\ r.status = 404 => r.sid \notin sse_streams /\ r.pc = "done"
         /\ r.pc # "idle" /\ r.sid \notin DOMAIN conns =>
              r.status \in {400, 404}
         /\ r.pc = "done" /\ r.sid \in sse_streams =>
              \E i \in 1..Len(conns[r.sid].inbound) :
                conns[r.sid].inbound[i].msg = r.msg
    /\ \A id \in DOMAIN conns :
         \A i \in 1..Len(conns[id].inbound) :
           \E p \in Procs :
             /\ posts[p].sid = id /\ posts[p].pc = "done"
             /\ posts[p].msg = conns[id].inbound[i].msg
             /\ posts[p].status = IF posts[p].valid THEN 202 ELSE 400

\* C25 witness: a POST for a session that has its record in the store and
\* no registry entry was answered 404, and the message of another POST was
\* delivered to a session that has its registry entry and no record in the
\* store.
C25_Witness ==
    \E p \in Procs, q \in Procs :
      /\ posts[p].status = 404
      /\ posts[p].sid \in DOMAIN sessions
      /\ posts[q].pc = "done" /\ posts[q].status = 202
      /\ posts[q].sid \in sse_streams
      /\ posts[q].sid \notin DOMAIN sessions
      /\ conns[posts[q].sid].inbound
           = <<[msg |-> posts[q].msg, valid |-> TRUE]>>

\* C26: the messages of one SSE session are delivered in send order.  While
\* the connection is open, of two posted messages in the session's inbound
\* channel the one that comes first is the one whose POST was answered 202
\* first, also when the POST handlers overlap; and the message events
\* sent to the client, followed by the messages waiting to be forwarded,
\* are the messages the dispatcher wrote, in the order written.
C26_DeliveredInSendOrder ==
    \A id \in DOMAIN conns :
      LET c == conns[id]
          AckedAt(m) == CHOOSE k \in 1..Len(acked) : acked[k].msg = m
      IN  /\ c.stage \in {"yielded", "open"} =>
                \A i \in 1..Len(c.inbound), j \in 1..Len(c.inbound) :
                  i < j /\ c.inbound[i].valid /\ c.inbound[j].valid
                    => AckedAt(c.inbound[i].msg) < AckedAt(c.inbound[j].msg)
          /\ c.stage = "open" => Tail(c.events) \o c.outbound = c.written
          /\ c.stage = "yielded" => c.outbound = c.written

\* C30 (under SpecMgr): generateById(id) ends without error and leaves the
\* record of id in the store with last_active at the time of the call, in
\* every case, the record being removed between the existence check and the
\* write of last_active included.
C30_GenerateByIdAlwaysTouches ==
    last.op = "generateById"
    => /\ last.result = "returned"
       /\ last.id \in DOMAIN sessions
       /\ sessions[last.id].val.last_active >= last.began


(***************************************************************************)
(* SpecRmw: one session is made; a retrieve is made store call by store    *)
(* call, with the calls of other requests on the same session              *)
(* (extendSessionExpiry, retrieve) and the clock between its read and its  *)
(* write.                                                                  *)
(***************************************************************************)
NextRmw ==
    \/ \E id \in SessionIds : MgrRetRead(id)
    \/ MgrRetWrite
    \/ \E id \in {NextSid} : usedSids = {} /\ GenerateById(id)
    \/ \E id \in DOMAIN sessions : ExtendExpiry(id)
    \/ \E id \in DOMAIN sessions : RetrieveCall(id)
    \/ CoarseTick

SpecRmw == Init /\ [][NextRmw]_vars

\* C31: retrieve writes back the whole record it read, with last_active of
\* its own clock reading: whatever another extendSessionExpiry or retrieve
\* wrote to the record between the read and the write-back is overwritten,
\* and the stored record is the one of the last writer.
C31_WriteBackOverwrites ==
    [][(mpc = "ret_write" /\ mpc' = "idle")
       => /\ mcall.id \in DOMAIN sessions'
          /\ sessions'[mcall.id].val = mcall.doc]_vars

\* C31 witness: a retrieve has ended whose write-back undid the logical
\* expiry an extendSessionExpiry wrote after the retrieve's read: the key
\* lives for the extended window, the record carries the expiry read before.
C31_Witness ==
    /\ last.op = "retrieve" /\ "began" \in DOMAIN last
    /\ last.result = "Session"
    /\ last.began < now
    /\ last.id \in DOMAIN sessions
    /\ sessions[last.id].val.expiry = last.began + TtlUnits
    /\ sessions[last.id].expire_at = now + TtlUnits


\* C32 (under SpecSse): in no state that a POST /messages/ handler can run
\* in does the registry hold the entry of a session whose
\* read_stream_writer is closed, and in no such state is the entry of a
\* connection gone while read_stream_writer or write_stream_reader is open:
\* the two closes and the pop of response_wrapper's finally make one step.
C32_NoPartialCleanup ==
    \A id \in DOMAIN conns :
      /\ id \in sse_streams => conns[id].writer_open
      /\ id \notin sse_streams =>
           ~conns[id].writer_open /\ ~conns[id].reader_open

\* C32 witness: a connection has been closed while a POST handler for its
\* session was between its registry lookup and its send.
C32_Witness ==
    \E p \in Procs :
      /\ posts[p].pc \in {"ack", "send"}
      /\ posts[p].sid \in DOMAIN conns
      /\ conns[posts[p].sid].stage = "closed"
      /\ posts[p].sid \notin sse_streams


(***************************************************************************)
(* SpecConn: SSE connections alone, as many as there are session ids, with *)
(* the dispatcher's writes, the forwarder, and the deletes of session      *)
(* records by other requests.                                              *)
(***************************************************************************)
NextConn ==
    \/ \E store_up \in BOOLEAN : SseConnect(store_up)
    \/ \E id \in SessionIds : SseStart(id)
    \/ \E id \in SessionIds : DispatcherWrite(id)
    \/ \E id \in SessionIds : SseForward(id)
    \/ \E id \in SessionIds : SseWriterExit(id)
    \/ \E id \in SessionIds : SseClose(id)
    \/ \E id \in DOMAIN sessions : Cleanup(id)

SpecConn == Init /\ [][NextConn]_vars

\* C33 (under SpecConn): a step that sets up an SSE connection writes the
\* registry entry under a session id the registry did not hold and no
\* earlier connection had, and leaves every other entry and connection as
\* it was; when the setup has succeeded the record of that session id is in
\* the store; and on a connection that is open the forwarder has sent the
\* endpoint event, the entry is in the registry and both channel ends are
\* open.
C33_EstablishedConnection ==
    [][/\ \A id \in DOMAIN conns' \ DOMAIN conns :
            /\ id \notin sse_streams /\ id \notin usedSids
            /\ sse_streams' = sse_streams \cup {id}
            /\ \A x \in DOMAIN conns : conns'[x] = conns[x]
            /\ conns'[id].stage = "yielded" =>
                 /\ id \in DOMAIN sessions'
                 /\ sessions'[id].val.id = id
       /\ \A id \in DOMAIN conns' :
            conns'[id].stage = "open" =>
              /\ id \in sse_streams'
              /\ conns'[id].writer_open /\ conns'[id].reader_open
              /\ conns'[id].events # <<>>
              /\ Head(conns'[id].events) = "endpoint"]_vars

\* C33 witness: two connections are open at once, each under its own
\* session id with its own record in the store, and the forwarder of one
\* of them has sent a message of the dispatcher.
C33_Witness ==
    /\ Cardinality(sse_streams) = 2
    /\ \A id \in sse_streams :
         /\ conns[id].stage = "open"
         /\ id \in DOMAIN sessions
    /\ \E id \in sse_streams : Len(conns[id].events) > 1


(***************************************************************************)
(* SpecHttp: a session and a token are made; two requests with the bearer  *)
(* token are served as tasks of one event loop, with the failures of the   *)
(* store, of the start of a transport task and of the dispatcher; requests *)
(* to /mcp come with and without the session id header; session records   *)
(* are deleted.                                                            *)
(***************************************************************************)
NextHttp ==
    \/ \E id \in {NextSid} : usedSids = {} /\ GenerateById(id)
    \/ \E sid \in DOMAIN sessions : tokens = {} /\ IssueTokenCall(sid, <<>>)
    \/ \E p \in Procs, tok \in tokens, store_up \in BOOLEAN :
          HttpEnter(p, tok, store_up)
    \/ \E p \in Procs, ok \in BOOLEAN : HttpStarted(p, ok)
    \/ \E p \in Procs, ok \in BOOLEAN : HttpDispatch(p, ok)
    \/ \E header \in SessionIds \cup {Absent} : McpRequest(header)
    \/ \E id \in DOMAIN sessions : Cleanup(id)

SpecHttp == Init /\ [][NextHttp]_vars

\* C34 (under SpecHttp): a request to /mcp without the session id header is
\* given a session id the program had not used; when the request is handed
\* to the dispatcher that id has its transport in the registry, the
\* transport's task has started, and its record is in the store.  A request
\* with the header leaves the registry as it is and adds no record to the
\* store: the record of its session, when there is one, gets the time of
\* the request as last_active and is otherwise as it was.
C34_StatefulBootstrap ==
    [][\A header \in SessionIds \cup {Absent} :
         McpRequest(header) =>
           IF header = Absent
           THEN /\ last'.id \notin usedSids
                /\ last'.id \notin server_instances
                /\ last'.id \in server_instances'
                /\ last'.id \in started'
                /\ made'[last'.id] = 1
                /\ last'.id \in DOMAIN sessions'
                /\ sessions'[last'.id].val.id = last'.id
           ELSE /\ last'.id = header
                /\ UNCHANGED <<server_instances, started, made>>
                /\ DOMAIN sessions' = DOMAIN sessions
                /\ \A id \in DOMAIN sessions :
                     sessions'[id] =
                       IF id = header
                       THEN [sessions[id] EXCEPT !.val.last_active = now]
                       ELSE sessions[id]]_vars

\* C34 witness: a request without the header was given a session, and a
\* later request with that session id in the header has been served with
\* the registry and the records of the store as they were.
C34_Witness ==
    /\ last.op = "mcp" /\ last.header # Absent
    /\ last.header \in server_instances
    /\ last.header \in DOMAIN sessions
    /\ made[last.header] = 1
    /\ \E other \in DOMAIN sessions : other \notin server_instances


\* C35 (under SpecHttp): over every interleaving of requests, a session has
\* at most one transport made for it and has its registry entry exactly
\* when one was made; a transport's task is started only for a session with
\* an entry; an entry, once written, stays; and the registry changes in no
\* step but the step of a bearer-protected request that finds no entry and
\* the step of a /mcp request without the session id header: not in a
\* step of the token service or of the session store.
C35_CreateIfAbsent ==
    [][/\ \A id \in SessionIds :
            /\ made'[id] <= 1
            /\ id \in server_instances' <=> made'[id] = 1
       /\ started' \subseteq server_instances'
       /\ server_instances \subseteq server_instances'
       /\ server_instances' # server_instances =>
            \/ \E p \in Procs :
                 /\ hreq[p].pc = "idle" /\ hreq'[p].pc = "starting"
                 /\ server_instances'
                      = server_instances \cup {hreq'[p].sid}
            \/ /\ last'.op = "mcp" /\ last'.header = Absent
               /\ server_instances' = server_instances \cup {last'.id}]_vars

\* C35 witness: two requests of one session overlap, the first awaiting
\* the start of the transport it made and the second past the registry
\* check, and one transport has been made for the session.
C35_Witness ==
    \E p \in Procs, q \in Procs :
      /\ hreq[p].pc = "starting" /\ hreq[q].pc = "dispatching"
      /\ hreq[p].sid = hreq[q].sid
      /\ made[hreq[p].sid] = 1

\* C36 (under SpecHttp): a failure at a step of a bearer-protected request
\* after the header check is answered 500, and the body of the 500 is
\* generic: its message holds nothing of the failure.
C36_Generic500 ==
    \A p \in Procs :
      hreq[p].status = 500 =>
        /\ hreq[p].body.error = "internal_server_error"
        /\ \A i \in 1..Len(hreq[p].body.error_message) :
             hreq[p].body.error_message[i]
               \notin {StoreDown, StartFailed, DispatcherFailed}

\* C39 (under SpecHttp): a bearer-protected request is handed to the
\* dispatcher only for a session whose transport task has started, also
\* when it overlaps with the request that made the transport.
C39_DispatchedOnlyWhenStarted ==
    \A p \in Procs :
      hreq[p].pc = "dispatching" => hreq[p].sid \in started


\* C37 (under SpecMgr): cleanup is final.  A session record that is not in
\* the store (deleted by cleanupSession or dropped at the end of its
\* time-to-live) comes into the store by no step but the JSON.SET of a
\* generateById for that id: the write-back of a retrieve that had read
\* the record before never brings it back.
C37_CleanupIsFinal ==
    [][\A id \in SessionIds :
         (id \notin DOMAIN sessions /\ id \in DOMAIN sessions')
         => (mpc = "gen_set" /\ mcall.id = id)]_vars


\* C38 (under SpecSse): every message that POST /messages/ has answered
\* with 202 Accepted is in the inbound channel of its session once the
\* handler has ended, also when the connection was closed right after the
\* answer.
C38_AckedIsDelivered ==
    \A p \in Procs :
      (posts[p].pc = "done" /\ posts[p].status = 202)
      => \E i \in 1..Len(conns[posts[p].sid].inbound) :
           conns[posts[p].sid].inbound[i].msg = posts[p].msg


\* C40 (under SpecGate): POST /token returns a token only for a session
\* whose record is in the store when the token is issued, so that the token
\* validates when presented at once; a code whose session has been cleaned
\* up or evicted is not exchanged.
C40_TokenOnlyForLiveSession ==
    (last.op = "token" /\ last.status = 200)
    => /\ minted[last.code].session_id \in DOMAIN sessions
       /\ \A tok \in tokens :
            tok.jti \in grants[last.code]
            => ValidateToken(tok, token_store, sessions, now).valid

====
